---- MODULE Spec2Model ----
(***************************************************************************)
(* Asset-Forge CDN: the asset delivery pipeline.                           *)
(*   - utils/range-handler.ts  parseRangeHeader, generateETag, ...         *)
(*   - utils/file-server.ts    serveFile, serveFileHead                    *)
(*   - index.ts                the category routes /models, /emotes, /music*)
(*   - middleware/rateLimit.ts the rate limiter                            *)
(* Strings are sequences of one-character strings, so that parsing and     *)
(* formatting are computed character by character as the code does.        *)
(***************************************************************************)
EXTENDS Integers, Sequences, FiniteSets, TLC

VARIABLES fs, cache, req, resp, call, store, now, rl, rin, rout, app, env, up,
          wh, hist, shadow, sessions, dash, gone

vars ==
  <<fs, cache, req, resp, call, store, now, rl, rin, rout, app, env, up, wh,
    hist, shadow,
    sessions, dash, gone>>

(***************************************************************************)
(* Bounds of the model.                                                    *)
(***************************************************************************)
\* largest file length (bytes) an upload writes
MaxSize == 3
\* modification times an upload can stamp on a file: 1..MaxMtime
MaxMtime == 2
\* largest file length given to parseRangeHeader on its own
MaxTotal == 10
\* largest number in the pure checks of generateETag
MaxMeta == 12
\* the clock of the rate limiter runs from 0 to MaxNow (ms) in steps of TickMs
MaxNow == 2500
TickMs == 500
\* a window's counter is followed up to MaxCount
MaxCount == 4
\* the largest retryAttempts and retryDelay (ms) of a notification
MaxAttempts == 3
MaxRetryDelay == 2
\* the limit profiles, scaled down: the source has 10 requests per 3600000 ms
\* (upload), 100 per 60000 ms (api) and 1000 per 60000 ms (static files)
UploadMaxRequests == 1
UploadWindowMs == 1500
ApiMaxRequests == 2
ApiWindowMs == 1000
StaticMaxRequests == 3
StaticWindowMs == 1000

\* the absent string: a header that is not sent
None == <<"none">>

(***************************************************************************)
(* Characters, decimal formatting and parsing.                             *)
(***************************************************************************)
DigitChar == <<"0", "1", "2", "3", "4", "5", "6", "7", "8", "9">>

Digits == {DigitChar[i] : i \in 1..10}

DigitVal(c) == (CHOOSE i \in 1..10 : DigitChar[i] = c) - 1

\* Number.prototype.toString() / template-literal formatting of an integer >= 0
RECURSIVE toString(_)
toString(n) ==
  IF n < 10 THEN <<DigitChar[n + 1]>>
  ELSE toString(n \div 10) \o <<DigitChar[(n % 10) + 1]>>

\* parseInt(s, 10) of a non-empty string of decimal digits
RECURSIVE parseInt(_)
parseInt(s) ==
  IF Len(s) = 1 THEN DigitVal(s[1])
  ELSE 10 * parseInt(SubSeq(s, 1, Len(s) - 1)) + DigitVal(s[Len(s)])

Max(a, b) == IF a >= b THEN a ELSE b

S_bytesEq == <<"b", "y", "t", "e", "s", "=">>
S_itemsEq == <<"i", "t", "e", "m", "s", "=">>
S_bytesSp == <<"b", "y", "t", "e", "s", " ">>
S_star == <<"*">>
S_other == <<"\"", "x", "\"">>
S_sep == <<",", " ">>

(***************************************************************************)
(* utils/range-handler.ts                                                  *)
(***************************************************************************)
\* the index after the longest run of digits of h that starts at index i (\d*)
RECURSIVE DigitRunEnd(_, _)
DigitRunEnd(h, i) ==
  IF i <= Len(h) /\ h[i] \in Digits THEN DigitRunEnd(h, i + 1) ELSE i

\* /bytes=(\d*)-(\d*)/ tried at index i of h: the literal, a greedy digit run,
\* the dash, a greedy digit run.  (Backtracking the first run cannot help: the
\* character after a shorter run is a digit, not the dash.)
MatchesAt(h, i) ==
  /\ i + 5 <= Len(h)
  /\ SubSeq(h, i, i + 5) = S_bytesEq
  /\ DigitRunEnd(h, i + 6) <= Len(h)
  /\ h[DigitRunEnd(h, i + 6)] = "-"

GroupsAt(h, i) ==
  LET d == DigitRunEnd(h, i + 6)
      e == DigitRunEnd(h, d + 1)
  IN  [isNull |-> FALSE,
       m1 |-> SubSeq(h, i + 6, d - 1), m2 |-> SubSeq(h, d + 1, e - 1)]

\* the null a failed match returns
NoMatch == [isNull |-> TRUE, m1 |-> <<>>, m2 |-> <<>>]

\* rangeHeader.match(/bytes=(\d*)-(\d*)/): the regex is not anchored, so the
\* first index at which it matches decides
RangeMatch(h) ==
  LET at == {i \in 1..Len(h) : MatchesAt(h, i)}
  IN  IF at = {} THEN NoMatch
      ELSE GroupsAt(h, CHOOSE i \in at : \A j \in at : i <= j)

\* a plausible slip: the suffix form without Math.max(0, ...)
RangeBounds_NoMax(m, fileSize) ==
  LET start0 == IF m.m1 # <<>> THEN parseInt(m.m1) ELSE 0
      end0 == IF m.m2 # <<>> THEN parseInt(m.m2) ELSE fileSize - 1
  IN  IF m.m1 = <<>> /\ m.m2 # <<>>
      THEN [start |-> fileSize - parseInt(m.m2), end |-> fileSize - 1]
      ELSE [start |-> start0, end |-> end0]

\* start and end as computed before the validation (lines 38-45)
RangeBounds(m, fileSize) ==
  LET start0 == IF m.m1 # <<>> THEN parseInt(m.m1) ELSE 0
      end0 == IF m.m2 # <<>> THEN parseInt(m.m2) ELSE fileSize - 1
  IN  IF m.m1 = <<>> /\ m.m2 # <<>>
      THEN [start |-> Max(0, fileSize - parseInt(m.m2)), end |-> fileSize - 1]
      ELSE [start |-> start0, end |-> end0]

\* a plausible slip: the end is not checked against the file length
RangeInvalid_EndUnchecked(b, fileSize) ==
  b.start >= fileSize \/ b.start > b.end

\* a plausible slip: start > end is not rejected
RangeInvalid_OrderUnchecked(b, fileSize) ==
  b.start >= fileSize \/ b.end >= fileSize

\* the validation of line 48
RangeInvalid(b, fileSize) ==
  b.start >= fileSize \/ b.end >= fileSize \/ b.start > b.end

\* the null RangeResult (an invalid range)
NullRange ==
  [isNull |-> TRUE, start |-> 0, end |-> 0, total |-> 0, contentLength |-> 0,
   isPartial |-> FALSE]

parseRangeHeader(rangeHeader, fileSize) ==
  IF rangeHeader = None \/ rangeHeader = <<>>
  THEN [isNull |-> FALSE, start |-> 0, end |-> fileSize - 1, total |-> fileSize,
        contentLength |-> fileSize, isPartial |-> FALSE]
  ELSE LET m == RangeMatch(rangeHeader)
       IN  IF m.isNull THEN NullRange
           ELSE LET b == RangeBounds(m, fileSize)
                IN  IF RangeInvalid(b, fileSize) THEN NullRange
                    ELSE [isNull |-> FALSE, start |-> b.start, end |-> b.end,
                          total |-> fileSize,
                          contentLength |-> b.end - b.start + 1,
                          isPartial |-> TRUE]

generateContentRangeHeader(range) ==
  <<"b", "y", "t", "e", "s", " ">> \o toString(range.start) \o <<"-">>
    \o toString(range.end) \o <<"/">> \o toString(range.total)

\* a plausible slip: size and mtime are concatenated with nothing between them
generateETag_NoSeparator(size, mtime) ==
  <<"W", "/", "\"">> \o toString(size) \o toString(mtime) \o <<"\"">>

generateETag(size, mtime) ==
  <<"W", "/", "\"">> \o toString(size) \o <<"-">> \o toString(mtime) \o <<"\"">>

\* String.prototype.trim(): leading and trailing blanks removed
RECURSIVE TrimLeft(_)
TrimLeft(s) == IF s # <<>> /\ s[1] = " " THEN TrimLeft(Tail(s)) ELSE s

RECURSIVE TrimRight(_)
TrimRight(s) ==
  IF s # <<>> /\ s[Len(s)] = " " THEN TrimRight(SubSeq(s, 1, Len(s) - 1)) ELSE s

Trim(s) == TrimRight(TrimLeft(s))

\* String.prototype.split(","): the pieces between the commas, as a sequence
RECURSIVE SplitComma(_, _)
SplitComma(s, cur) ==
  IF s = <<>> THEN <<cur>>
  ELSE IF s[1] = "," THEN <<cur>> \o SplitComma(Tail(s), <<>>)
  ELSE SplitComma(Tail(s), Append(cur, s[1]))

\* a plausible slip: the pieces of the list are not trimmed
checkETagMatch_NoTrim(etag, ifNoneMatch) ==
  IF ifNoneMatch = None \/ ifNoneMatch = <<>> THEN FALSE
  ELSE LET parts == SplitComma(ifNoneMatch, <<>>)
           tags == {parts[i] : i \in 1..Len(parts)}
       IN  etag \in tags \/ S_star \in tags

checkETagMatch(etag, ifNoneMatch) ==
  IF ifNoneMatch = None \/ ifNoneMatch = <<>> THEN FALSE
  ELSE LET parts == SplitComma(ifNoneMatch, <<>>)
           tags == {Trim(parts[i]) : i \in 1..Len(parts)}
       IN  etag \in tags \/ S_star \in tags

(***************************************************************************)
(* The file system: absolute paths are sequences of segments.              *)
(***************************************************************************)
\* DATA_DIR, the configured asset root (index.ts line 51)
DATA_DIR == <<"data">>

AssetPath == <<"data", "models", "a.glb">>
\* a file of the host outside the asset root
OutsidePath == <<"secret">>

FilePaths == {AssetPath, OutsidePath}

\* the bytes of a file of length n written with seed k
Bytes(n, k) == [i \in 1..n |-> (k + i) % 256]

\* a path at which there is no file
NoFile == [exists |-> FALSE, data |-> <<>>, lastModified |-> 0]

OutsideFile == [exists |-> TRUE, data |-> Bytes(2, 200), lastModified |-> 1]

\* Bun.file(p)
FsGet(files, p) == IF p \in DOMAIN files THEN files[p] ELSE NoFile

\* path.normalize of an absolute path: "." and empty segments are dropped,
\* ".." removes the segment before it (and is dropped at the root)
RECURSIVE NormalizeAbs(_, _)
NormalizeAbs(segs, acc) ==
  IF segs = <<>> THEN acc
  ELSE IF Head(segs) \in {"", "."} THEN NormalizeAbs(Tail(segs), acc)
  ELSE IF Head(segs) = ".."
       THEN NormalizeAbs(Tail(segs),
                         IF acc = <<>> THEN acc ELSE SubSeq(acc, 1, Len(acc) - 1))
  ELSE NormalizeAbs(Tail(segs), Append(acc, Head(segs)))

\* path.join(DATA_DIR, category, relativePath)
join(root, category, relativePath) ==
  NormalizeAbs(root \o <<category>> \o relativePath, <<>>)

UnderRoot(p) ==
  Len(p) > Len(DATA_DIR) /\ SubSeq(p, 1, Len(DATA_DIR)) = DATA_DIR

\* Bun.file(path).type: the media type inferred from the extension, "" if none
FileType(p) ==
  IF p # <<>> /\ p[Len(p)] \in {"a.glb", "b.glb"} THEN <<"model/gltf-binary">>
  ELSE IF p # <<>> /\ p[Len(p)] = "meta.json"
       THEN <<"application/json", ";", "charset=utf-8">>
  ELSE <<>>

(***************************************************************************)
(* utils/file-server.ts                                                    *)
(***************************************************************************)
HeaderNames ==
  {"Content-Type", "Content-Length", "Accept-Ranges", "ETag", "Last-Modified",
   "Cache-Control", "Content-Range", "Content-Encoding", "Vary",
   "WWW-Authenticate", "Location", "Set-Cookie"}

NoHeaders == [h \in HeaderNames |-> None]

NullBody == [kind |-> "null", bytes |-> <<>>, text |-> ""]
TextBody(t) == [kind |-> "text", bytes |-> <<>>, text |-> t]
BytesBody(b) == [kind |-> "bytes", bytes |-> b, text |-> ""]

DefaultMaxAge == 31536000

buildCacheControl(options) ==
  LET maxAge == IF "maxAge" \in DOMAIN options THEN options.maxAge
                ELSE DefaultMaxAge
      immutable == IF "immutable" \in DOMAIN options THEN options.immutable
                   ELSE TRUE
  IN  <<"p", "u", "b", "l", "i", "c">> \o S_sep
        \o <<"m", "a", "x", "-", "a", "g", "e", "=">> \o toString(maxAge)
        \o (IF immutable
            THEN S_sep \o <<"i", "m", "m", "u", "t", "a", "b", "l", "e">>
            ELSE <<>>)

\* new Date(lastModified).toUTCString(): the date to the second
toUTCString(lastModified) == <<"D">> \o toString(lastModified \div 1000)

ContentTypeOf(filePath, options) ==
  IF "contentType" \in DOMAIN options THEN options.contentType
  ELSE IF FileType(filePath) # <<>> THEN FileType(filePath)
  ELSE <<"application/octet-stream">>

NotModified(etag, options) ==
  [status |-> 304,
   headers |-> [NoHeaders EXCEPT !["ETag"] = etag,
                                 !["Cache-Control"] = buildCacheControl(options)],
   body |-> NullBody]

\* new Response("File not found", { status: 404 })
NotFound ==
  [status |-> 404, headers |-> NoHeaders, body |-> TextBody("File not found")]

\* new Response("Range Not Satisfiable", { status: 416, headers: ... })
RangeNotSatisfiable(fileSize) ==
  [status |-> 416,
   headers |-> [NoHeaders EXCEPT !["Content-Range"] =
                  <<"b", "y", "t", "e", "s", " ", "*", "/">> \o toString(fileSize)],
   body |-> TextBody("Range Not Satisfiable")]

\* Blob.slice(from, to) for 0 <= from: the bytes at offsets from..to-1, with
\* to clamped to the length
BlobSlice(data, from, to) ==
  SubSeq(data, from + 1, IF to > Len(data) THEN Len(data) ELSE to)

\* a plausible slip: file.slice(start, end), the end taken as exclusive
Slice_EndExclusive(file, range) == BlobSlice(file.data, range.start, range.end)

\* file.slice(range.start, range.end + 1): the bytes at offsets start..end
Slice(file, range) == BlobSlice(file.data, range.start, range.end + 1)

\* lines 86-118: the headers and the body of a 200 or 206
ContentResponse(file, filePath, range, etag, options) ==
  LET headers ==
        [NoHeaders EXCEPT
           !["Content-Type"] = ContentTypeOf(filePath, options),
           !["Content-Length"] = toString(range.contentLength),
           !["Accept-Ranges"] = <<"b", "y", "t", "e", "s">>,
           !["ETag"] = etag,
           !["Last-Modified"] = toUTCString(file.lastModified),
           !["Cache-Control"] = buildCacheControl(options),
           !["Content-Range"] =
              IF range.isPartial THEN generateContentRangeHeader(range)
              ELSE None]
  IN  IF range.isPartial
      THEN [status |-> 206, headers |-> headers,
            body |-> BytesBody(Slice(file, range))]
      ELSE [status |-> 200, headers |-> headers, body |-> BytesBody(file.data)]

\* a plausible slip: the range is parsed and rejected before the conditional
\* request is looked at
serveFile_RangeFirst(files, filePath, request, options) ==
  LET file == FsGet(files, filePath)
      fileSize == Len(file.data)
      etag == generateETag(fileSize, file.lastModified)
      range == parseRangeHeader(request.range, fileSize)
  IN  IF ~file.exists THEN NotFound
      ELSE IF range.isNull THEN RangeNotSatisfiable(fileSize)
      ELSE IF checkETagMatch(etag, request.inm) THEN NotModified(etag, options)
      ELSE ContentResponse(file, filePath, range, etag, options)

serveFile(files, filePath, request, options) ==
  LET file == FsGet(files, filePath)
      fileSize == Len(file.data)
      etag == generateETag(fileSize, file.lastModified)
      range == parseRangeHeader(request.range, fileSize)
  IN  IF ~file.exists THEN NotFound
      ELSE IF checkETagMatch(etag, request.inm) THEN NotModified(etag, options)
      ELSE IF range.isNull THEN RangeNotSatisfiable(fileSize)
      ELSE ContentResponse(file, filePath, range, etag, options)

serveFileHead(files, filePath, request, options) ==
  LET file == FsGet(files, filePath) IN
  IF ~file.exists
  THEN [status |-> 404, headers |-> NoHeaders, body |-> NullBody]
  ELSE
    LET fileSize == Len(file.data)
        lastModified == file.lastModified
        etag == generateETag(fileSize, lastModified)
    IN
    IF checkETagMatch(etag, request.inm) THEN NotModified(etag, options)
    ELSE [status |-> 200,
          headers |->
            [NoHeaders EXCEPT
               !["Content-Type"] = ContentTypeOf(filePath, options),
               !["Content-Length"] = toString(fileSize),
               !["Accept-Ranges"] = <<"b", "y", "t", "e", "s">>,
               !["ETag"] = etag,
               !["Last-Modified"] = toUTCString(lastModified),
               !["Cache-Control"] = buildCacheControl(options)],
          body |-> NullBody]

\* what the handler read of the file: file.exists(), file.size, file.lastModified
Stat(files, filePath) ==
  LET file == FsGet(files, filePath) IN
  [exists |-> file.exists, size |-> Len(file.data),
   lastModified |-> file.lastModified]


(***************************************************************************)
(* middleware/rateLimit.ts                                                 *)
(***************************************************************************)
\* the request headers the limiter reads; an address is one character here
IpA == <<"1.1.1.1">>
IpB == <<"9.9.9.9">>
UaShort == <<"u">>
\* two user agents of 51 characters that differ in the last one only
UaLong(c) == [i \in 1..51 |-> IF i = 51 THEN c ELSE "a"]

ClientHeaders ==
  {[xff |-> IpA, realIp |-> None, ua |-> UaShort],
   [xff |-> <<" ">> \o IpA \o S_sep \o IpB, realIp |-> IpB, ua |-> UaShort],
   [xff |-> None, realIp |-> None, ua |-> UaLong("b")],
   [xff |-> None, realIp |-> None, ua |-> UaLong("c")]}

S_unknown == <<"u", "n", "k", "n", "o", "w", "n">>

UaPrefixLen == 50

\* userAgent.substring(0, 50)
Substring50(ua) ==
  SubSeq(ua, 1, IF Len(ua) < UaPrefixLen THEN Len(ua) ELSE UaPrefixLen)

getClientId(h) ==
  LET forwarded == IF h.xff # None /\ h.xff # <<>> THEN h.xff
                   ELSE IF h.realIp # None /\ h.realIp # <<>> THEN h.realIp
                   ELSE S_unknown
      ip == Trim(SplitComma(forwarded, <<>>)[1])
      userAgent == IF h.ua # None /\ h.ua # <<>> THEN h.ua ELSE S_unknown
  IN  ip \o <<":">> \o Substring50(userAgent)

ClientIds == {getClientId(h) : h \in ClientHeaders}

\* url.pathname, split at "/"
Pathnames == {<<"api", "upload">>, <<"api", "files">>, <<"models", "a.glb">>}

\* the skip patterns /^\/<dir>\// (a segment and the slash after it) and
\* /^\/<dir>/ (the pathnames of the model have no longer first segment)
SkipStatic ==
  {[dir |-> "models", slash |-> TRUE], [dir |-> "emotes", slash |-> TRUE],
   [dir |-> "music", slash |-> TRUE], [dir |-> "dashboard", slash |-> FALSE],
   [dir |-> "swagger", slash |-> FALSE]}

shouldSkip(pathname, skipPatterns) ==
  \E pat \in skipPatterns :
    /\ pathname # <<>>
    /\ pathname[1] = pat.dir
    /\ pat.slash => Len(pathname) >= 2

uploadRateLimit ==
  [name |-> "upload", maxRequests |-> UploadMaxRequests,
   windowMs |-> UploadWindowMs, skip |-> {}]

apiRateLimit ==
  [name |-> "api", maxRequests |-> ApiMaxRequests, windowMs |-> ApiWindowMs,
   skip |-> SkipStatic]

staticFileRateLimit ==
  [name |-> "static", maxRequests |-> StaticMaxRequests,
   windowMs |-> StaticWindowMs, skip |-> {}]

\* a key the Map does not hold
NoEntry == [present |-> FALSE, count |-> 0, resetTime |-> 0]

\* a plausible slip: a window counts as expired at its resetTime already
Expired_AtResetTime(entry, t) == entry.present /\ entry.resetTime <= t

\* entry && entry.resetTime < Date.now()
Expired(entry, t) == entry.present /\ entry.resetTime < t

\* RateLimitStore.get: the entry (none if it is expired) and the Map after the
\* deletion of an expired one
StoreGet(map, key, t) ==
  IF Expired(map[key], t)
  THEN [entry |-> NoEntry, map |-> [map EXCEPT ![key] = NoEntry]]
  ELSE [entry |-> map[key], map |-> map]

\* Math.ceil(a / b) for b > 0
Ceil(a, b) == IF a >= 0 THEN (a + b - 1) \div b ELSE -((-a) \div b)

\* new Date(t).toISOString(): the date to the millisecond
toISOString(t) == <<"T">> \o toString(t)

RlHeaderNames ==
  {"Retry-After", "X-RateLimit-Limit", "X-RateLimit-Remaining",
   "X-RateLimit-Reset"}

NoRlHeaders == [h \in RlHeaderNames |-> None]

\* no request is in the limiter
NoRl ==
  [active |-> FALSE, profile |-> "", maxRequests |-> 0, windowMs |-> 0,
   clientId |-> <<>>, pathname |-> <<>>, at |-> 0, skipped |-> FALSE,
   before |-> NoEntry, status |-> 0, headers |-> NoRlHeaders]

\* the onBeforeHandle hook of rateLimit(config) for a request with headers h
\* and path pathname at time t: what it answers and the Map it leaves.  Status
\* 429 is the rejection, status 200 stands for "no response returned", the
\* request goes on
onBeforeHandle(config, map, t, h, pathname) ==
  LET clientId == getClientId(h)
      got == StoreGet(map, clientId, t)
      entry == got.entry
      count == entry.count + 1
      base == [NoRl EXCEPT !.active = TRUE, !.profile = config.name,
                           !.maxRequests = config.maxRequests,
                           !.windowMs = config.windowMs,
                           !.clientId = clientId, !.pathname = pathname,
                           !.at = t, !.before = map[clientId]]
  IN  IF shouldSkip(pathname, config.skip)
      THEN [rl |-> [base EXCEPT !.skipped = TRUE, !.status = 200], map |-> map]
      ELSE IF ~entry.present
      THEN [rl |-> [base EXCEPT !.status = 200],
            map |-> [got.map EXCEPT ![clientId] =
                       [present |-> TRUE, count |-> 1,
                        resetTime |-> t + config.windowMs]]]
      ELSE [map |-> [got.map EXCEPT ![clientId].count = count],
            rl |->
              IF count > config.maxRequests
              THEN [base EXCEPT
                      !.status = 429,
                      !.headers =
                         [NoRlHeaders EXCEPT
                            !["Retry-After"] =
                               toString(Ceil(entry.resetTime - t, 1000)),
                            !["X-RateLimit-Limit"] =
                               toString(config.maxRequests),
                            !["X-RateLimit-Remaining"] = <<"0">>,
                            !["X-RateLimit-Reset"] =
                               toISOString(entry.resetTime)]]
              ELSE [base EXCEPT
                      !.status = 200,
                      !.headers =
                         [NoRlHeaders EXCEPT
                            !["X-RateLimit-Limit"] =
                               toString(config.maxRequests),
                            !["X-RateLimit-Remaining"] =
                               toString(config.maxRequests - count),
                            !["X-RateLimit-Reset"] =
                               toISOString(entry.resetTime)]]]

\* the counter of the client's running window, if any, is below the cap of the
\* model
BelowCap(map, t, h) ==
  LET entry == StoreGet(map, getClientId(h), t).entry
  IN  ~entry.present \/ entry.count < MaxCount

\* what has happened in the window that one fingerprint, the one of ClientA,
\* has in the store: the time of its first request, the requests counted in
\* it, how many of them were rejected, and the profiles that counted them
NoHist == [first |-> 0, n |-> 0, rejected |-> 0, profiles |-> {}]

Observed == getClientId([xff |-> IpA, realIp |-> None, ua |-> UaShort])

\* the history after the hook of config answered out for a request that found
\* the store map at time t
Observe(h, config, map, t, out) ==
  LET w == IF StoreGet(map, Observed, t).entry.present THEN h ELSE NoHist
  IN  IF out.rl.skipped \/ out.rl.clientId # Observed THEN h
      ELSE [first |-> IF w.n = 0 THEN t ELSE w.first,
            n |-> w.n + 1,
            rejected |-> w.rejected + (IF out.rl.status = 429 THEN 1 ELSE 0),
            profiles |-> w.profiles \cup {config.name}]

\* a request meets the hook of one profile
rateLimit(config) ==
  /\ ~rl.active
  /\ \E h \in ClientHeaders, pathname \in Pathnames :
       LET out == onBeforeHandle(config, store, now, h, pathname)
       IN  /\ shouldSkip(pathname, config.skip) \/ BelowCap(store, now, h)
           /\ rl' = out.rl
           /\ store' = out.map
  /\ UNCHANGED <<fs, cache, req, resp, call, now, rin, rout, app, env, sessions, dash, gone, hist,
                 shadow, up, wh>>

\* one request header set for each fingerprint, and a path the API profile
\* counts and one it skips
OneHeaderEach ==
  {[xff |-> IpA, realIp |-> None, ua |-> UaShort],
   [xff |-> None, realIp |-> None, ua |-> UaLong("b")]}

TwoPaths == {<<"api", "files">>, <<"models", "a.glb">>}

\* the same step with the history of the windows kept
rateLimitCounted(config) ==
  /\ ~rl.active
  /\ \E h \in OneHeaderEach, pathname \in TwoPaths :
       LET out == onBeforeHandle(config, store, now, h, pathname)
       IN  /\ shouldSkip(pathname, config.skip) \/ BelowCap(store, now, h)
           /\ rl' = out.rl
           /\ store' = out.map
           /\ hist' = Observe(hist, config, store, now, out)
  /\ UNCHANGED <<fs, cache, req, resp, call, now, rin, rout, app, env, sessions, dash, gone, shadow,
                 up, wh>>

\* the same step taken by two limiters at once: the one that is swept (store)
\* and one that never is (shadow)
rateLimitBoth(config) ==
  /\ ~rl.active
  /\ \E h \in OneHeaderEach, pathname \in TwoPaths :
       LET out == onBeforeHandle(config, store, now, h, pathname)
       IN  /\ shouldSkip(pathname, config.skip) \/ BelowCap(store, now, h)
           /\ rl' = out.rl
           /\ store' = out.map
           /\ shadow' = onBeforeHandle(config, shadow, now, h, pathname).map
  /\ UNCHANGED <<fs, cache, req, resp, call, now, rin, rout, app, env, sessions, dash, gone, hist,
                 up, wh>>

\* the limiter's answer, or the request it let through, leaves the hook
RlDeliver ==
  /\ rl.active
  /\ rl' = NoRl
  /\ UNCHANGED <<fs, cache, req, resp, call, store, now, rin, rout, app, env, sessions, dash, gone, hist, shadow, up, wh>>

\* a plausible slip: the sweep removes a window at its resetTime already
SweepExpired_AtResetTime(entry, t) == entry.resetTime <= t

\* cleanup: entry.resetTime < now
SweepExpired(entry, t) == entry.resetTime < t

\* RateLimitStore.cleanup, run by setInterval
Cleanup ==
  /\ ~rl.active
  /\ store' = [k \in DOMAIN store |->
                 IF store[k].present /\ SweepExpired(store[k], now)
                 THEN NoEntry
                 ELSE store[k]]
  /\ UNCHANGED <<fs, cache, req, resp, call, now, rl, rin, rout, app, env, sessions, dash, gone, hist, shadow, up, wh>>

\* Date.now() advances
Tick ==
  /\ ~rl.active
  /\ now < MaxNow
  /\ now' = now + TickMs
  /\ UNCHANGED <<fs, cache, req, resp, call, store, rl, rin, rout, app, env, sessions, dash, gone, hist, shadow, up, wh>>

NextLimit ==
  \/ rateLimit(uploadRateLimit)
  \/ rateLimit(apiRateLimit)
  \/ rateLimit(staticFileRateLimit)
  \/ RlDeliver
  \/ Cleanup
  \/ Tick

(***************************************************************************)
(* index.ts: the category routes, and the routes that change the files.    *)
(***************************************************************************)
\* ASSET_DIRS (index.ts line 61)
ASSET_DIRS == {"models", "emotes", "music"}

\* the options each category route passes to serveFile / serveFileHead
RouteOptions(category) ==
  IF category = "emotes" THEN [contentType |-> <<"model/gltf-binary">>]
  ELSE IF category = "music" THEN [contentType |-> <<"audio/mpeg">>]
  ELSE <<>>

\* a request without the headers the limiter reads
NoClient == [xff |-> None, realIp |-> None, ua |-> None]

\* the client of most requests of the model
ClientA == [xff |-> IpA, realIp |-> None, ua |-> UaShort]

NoReq ==
  [method |-> "none", category |-> "", relPath |-> <<>>, range |-> None,
   inm |-> None, client |-> NoClient]

NoResp == [status |-> 0, headers |-> NoHeaders, body |-> NullBody]

NoCall ==
  [fn |-> "none", filePath |-> <<>>,
   stat |-> [exists |-> FALSE, size |-> 0, lastModified |-> 0]]

\* the requested relative paths (the wildcard of the route, split at "/")
RelPaths ==
  {<<"a.glb">>, <<"b.glb">>, <<>>, <<"..", "models", "a.glb">>,
   <<"..", "..", "secret">>}

DigitStrings == {<<>>} \cup {toString(n) : n \in 0..(MaxSize + 1)}

\* bytes=a-b with each bound a number or missing
SimpleRanges == {S_bytesEq \o a \o <<"-">> \o b : a, b \in DigitStrings}

\* bytes=start-end
RangeOf(start, end) == S_bytesEq \o toString(start) \o <<"-">> \o toString(end)

R_0_0 == S_bytesEq \o <<"0", "-", "0">>

\* other Range values: another unit, no "=", no dash, two ranges, text around
\* the range, a number of two digits, leading zeros
OtherRanges ==
  {S_itemsEq \o <<"0", "-", "0">>,
   S_bytesSp \o <<"0", "-", "0">>,
   S_bytesEq \o <<"0">>,
   R_0_0 \o <<",", "1", "-", "1">>,
   <<"x">> \o R_0_0 \o <<"x">>,
   S_bytesEq \o <<"0", "-", "1", "0">>,
   S_bytesEq \o <<"0", "0", "-", "0", "0">>}

RangeValues == {None} \cup SimpleRanges \cup OtherRanges

AllTags == {generateETag(n, m) : n \in 0..MaxSize, m \in 1..MaxMtime}

\* If-None-Match values: the wildcard, a tag of no asset, a tag of some state of
\* the asset, and lists of two
InmValues ==
  {S_star, S_other, S_other \o S_sep \o S_star} \cup AllTags
    \cup {S_other \o S_sep \o t : t \in AllTags}
    \cup {t \o <<",">> \o S_other : t \in AllTags}

\* a few Range values: none, a satisfiable one, an unsatisfiable one, a
\* malformed one
FewRanges == {None, R_0_0, S_bytesEq \o <<"9", "-">>, S_bytesSp \o <<"0", "-", "0">>}

\* the validator a client keeps of the asset: the ETag of the last full (200)
\* response to GET /models/a.glb and what the file was then
NoCache == [etag |-> None, stat |-> [exists |-> FALSE, size |-> 0, lastModified |-> 0]]

\* the header combinations sent for a path: for the asset itself every Range
\* without If-None-Match, a few Ranges with every If-None-Match (the
\* client's cached tag among them) and a plain request of every client; a few
\* combinations for the other paths
HeaderChoices(category, relPath) ==
  IF category = "models" /\ relPath = <<"a.glb">>
  THEN {[range |-> r, inm |-> None, client |-> ClientA] : r \in RangeValues}
       \cup {[range |-> r, inm |-> i, client |-> ClientA] :
               r \in FewRanges, i \in InmValues}
       \cup {[range |-> None, inm |-> None, client |-> c] : c \in ClientHeaders}
  ELSE {[range |-> r, inm |-> None, client |-> ClientA] : r \in {None, R_0_0}}

Idle == req = NoReq

\* .get("/<category>/*")
GetRoute(category) ==
  /\ Idle
  /\ \E relPath \in RelPaths :
       \E h \in HeaderChoices(category, relPath) :
         LET request == [method |-> "GET", category |-> category,
                         relPath |-> relPath, range |-> h.range, inm |-> h.inm,
                         client |-> h.client]
             filePath == join(DATA_DIR, category, relPath)
         IN  /\ req' = request
             /\ call' = [fn |-> "serveFile", filePath |-> filePath,
                         stat |-> Stat(fs, filePath)]
             /\ resp' = serveFile(fs, filePath, request, RouteOptions(category))
  /\ UNCHANGED <<fs, cache, store, now, rl, rin, rout, app, env, sessions, dash, gone, hist, shadow, up, wh>>

\* .head("/<category>/*")
HeadRoute(category) ==
  /\ Idle
  /\ \E relPath \in RelPaths :
       \E h \in HeaderChoices(category, relPath) :
         LET request == [method |-> "HEAD", category |-> category,
                         relPath |-> relPath, range |-> h.range, inm |-> h.inm,
                         client |-> h.client]
             filePath == join(DATA_DIR, category, relPath)
         IN  /\ req' = request
             /\ call' = [fn |-> "serveFileHead", filePath |-> filePath,
                         stat |-> Stat(fs, filePath)]
             /\ resp' = serveFileHead(fs, filePath, request,
                                      RouteOptions(category))
  /\ UNCHANGED <<fs, cache, store, now, rl, rin, rout, app, env, sessions, dash, gone, hist, shadow, up, wh>>

\* the response reaches the client, which keeps the validator of a full
\* response to GET /models/a.glb; the server is ready for the next request
Deliver ==
  /\ ~Idle
  /\ cache' = IF /\ req.method = "GET" /\ req.category = "models"
                 /\ req.relPath = <<"a.glb">> /\ resp.status = 200
              THEN [etag |-> resp.headers["ETag"], stat |-> call.stat]
              ELSE cache
  /\ req' = NoReq /\ resp' = NoResp /\ call' = NoCall
  /\ UNCHANGED <<fs, store, now, rl, rin, rout, app, env, sessions, dash, gone, hist, shadow, up, wh>>

\* POST /api/upload: Bun.write(join(rootDir, targetDir, file.name), buffer); the
\* file system stamps the modification time.  The response is not followed.
Upload ==
  /\ Idle
  /\ \E n \in 0..MaxSize, m \in 1..MaxMtime :
       fs' = [fs EXCEPT ![join(DATA_DIR, "models", <<"a.glb">>)] =
                [exists |-> TRUE, data |-> Bytes(n, 10), lastModified |-> m]]
  /\ UNCHANGED <<cache, req, resp, call, store, now, rl, rin, rout, app, env, sessions, dash, gone, hist, shadow, up, wh>>

\* DELETE /api/delete/*: unlinkSync(absolutePath)
Delete ==
  /\ Idle
  /\ fs[AssetPath].exists
  /\ fs' = [fs EXCEPT ![AssetPath] = NoFile]
  /\ UNCHANGED <<cache, req, resp, call, store, now, rl, rin, rout, app, env, sessions, dash, gone, hist, shadow, up, wh>>

(***************************************************************************)
(* middleware/compression.ts.  A content type is a sequence of tokens (the *)
(* media type, ";", blanks, parameters); an Accept-Encoding value is a     *)
(* sequence of characters.                                                 *)
(***************************************************************************)
COMPRESSIBLE_TYPES ==
  {"text/html", "text/css", "text/plain", "text/xml", "text/javascript",
   "application/json", "application/javascript", "application/xml",
   "application/xhtml+xml", "application/rss+xml", "application/atom+xml",
   "image/svg+xml", "application/vnd.ms-fontobject", "font/ttf", "font/otf",
   "font/woff", "font/woff2"}

MIN_COMPRESS_SIZE == 1024

\* the characters and tokens of the model that have an upper-case letter, with
\* their lower-case forms
UpperForms ==
  {<<"G", "g">>, <<"Z", "z">>, <<"I", "i">>, <<"P", "p">>, <<"B", "b">>,
   <<"R", "r">>, <<"Application/JSON", "application/json">>,
   <<"Image/PNG", "image/png">>}

\* String.prototype.toLowerCase
toLowerCase(s) ==
  [i \in 1..Len(s) |->
     IF \E u \in UpperForms : u[1] = s[i]
     THEN (CHOOSE u \in UpperForms : u[1] = s[i])[2]
     ELSE s[i]]

\* String.prototype.split(sep) for a separator of one character or token; cur
\* is the piece being read
RECURSIVE Split(_, _, _)
Split(s, sep, cur) ==
  IF s = <<>> THEN <<cur>>
  ELSE IF Head(s) = sep THEN <<cur>> \o Split(Tail(s), sep, <<>>)
  ELSE Split(Tail(s), sep, Append(cur, Head(s)))

\* String.prototype.includes
includes(s, sub) ==
  \E i \in 1..(Len(s) - Len(sub) + 1) : SubSeq(s, i, i + Len(sub) - 1) = sub

S_br == <<"b", "r">>
S_gzip == <<"g", "z", "i", "p">>
S_q0 == <<";", "q", "=", "0">>

isCompressible(contentType) ==
  IF contentType = None \/ contentType = <<>> THEN FALSE
  ELSE LET baseType == toLowerCase(Trim(Split(contentType, ";", <<>>)[1]))
       IN  Len(baseType) = 1 /\ baseType[1] \in COMPRESSIBLE_TYPES

\* "none" stands for null
selectEncoding(acceptEncoding) ==
  IF acceptEncoding = None \/ acceptEncoding = <<>> THEN "none"
  ELSE LET encodings == toLowerCase(acceptEncoding)
       IN  IF includes(encodings, S_br) THEN "br"
           ELSE IF includes(encodings, S_gzip) THEN "gzip"
           ELSE "none"

\* brotliCompressSync / gzipSync, as far as the model follows them: a header
\* of the format, then a run (value, length) for data of one repeated byte and
\* a stored block for any other data
compress(data, encoding) ==
  (IF encoding = "br" THEN <<11>> ELSE <<31, 139>>)
    \o (IF data # <<>> /\ \A i \in 1..Len(data) : data[i] = data[1]
        THEN <<1, data[1], Len(data) \div 256, Len(data) % 256>>
        ELSE <<0>> \o data)

\* response.headers.get("content-type"): a Response made of a string has
\* text/plain;charset=utf-8 unless a type was given
ContentTypeHeader(response) ==
  IF response.headers["Content-Type"] # None
  THEN response.headers["Content-Type"]
  ELSE IF response.body.kind = "text"
       THEN <<"text/plain", ";", "charset=utf-8">>
       ELSE None

\* response.arrayBuffer(): the bytes of the body (63 stands for a character of
\* a text)
arrayBuffer(response) ==
  IF response.body.kind = "bytes" THEN response.body.bytes
  ELSE IF response.body.kind = "text"
       THEN [i \in 1..Len(response.body.text) |-> 63]
       ELSE <<>>

\* the onAfterHandle hook: what the handler returned (a Response or another
\* value) and the Accept-Encoding of the request give what the hook returns;
\* bodyUsed tells that arrayBuffer() has read the body of the returned Response
compression(result, acceptEncoding) ==
  LET response == result.response
      unchanged == [isResponse |-> result.isResponse, response |-> response,
                    bodyUsed |-> FALSE]
      existingEncoding == response.headers["Content-Encoding"]
      encoding == selectEncoding(acceptEncoding)
      data == arrayBuffer(response)
      compressed == compress(data, encoding)
  IN  IF ~result.isResponse THEN unchanged
      ELSE IF existingEncoding # None /\ existingEncoding # <<>> THEN unchanged
      ELSE IF ~isCompressible(ContentTypeHeader(response)) THEN unchanged
      ELSE IF encoding = "none" THEN unchanged
      ELSE IF Len(data) < MIN_COMPRESS_SIZE
           THEN [unchanged EXCEPT !.bodyUsed = TRUE]
      ELSE [isResponse |-> TRUE,
            response |->
              [status |-> response.status,
               headers |->
                 [response.headers EXCEPT
                    !["Content-Type"] = ContentTypeHeader(response),
                    !["Content-Encoding"] = <<encoding>>,
                    !["Content-Length"] = toString(Len(compressed)),
                    !["Vary"] = <<"Accept-Encoding">>],
               body |-> BytesBody(compressed)],
            bodyUsed |-> FALSE]

(***************************************************************************)
(* The entry file with the limiter and the compression installed           *)
(* (.use(compression), .use(apiRateLimit), .use(staticFileRateLimit)): a   *)
(* request runs the onBeforeHandle hooks, the route handler unless a hook  *)
(* answered, and the onAfterHandle hook (specification SpecApp; the clock   *)
(* of the limiter stands still there, SpecLimit follows it).               *)
(***************************************************************************)
\* a JSON file of the models directory, one byte longer than the threshold of
\* the compression
MetaPath == <<"data", "models", "meta.json">>

Blank(n) == [i \in 1..n |-> 32]

AppFiles ==
  [p \in {AssetPath, OutsidePath, MetaPath} |->
     IF p = AssetPath
     THEN [exists |-> TRUE, data |-> Bytes(MaxSize, 10), lastModified |-> 1]
     ELSE IF p = MetaPath
     THEN [exists |-> TRUE, data |-> Blank(MIN_COMPRESS_SIZE + 1),
           lastModified |-> 1]
     ELSE OutsideFile]

\* new Response(JSON.stringify({ error: "RATE_LIMIT_EXCEEDED", ... }), ...)
TooManyRequests ==
  [status |-> 429,
   headers |-> [NoHeaders EXCEPT !["Content-Type"] = <<"application/json">>],
   body |-> TextBody("RATE_LIMIT_EXCEEDED")]

\* a handler returned nothing yet
NoResult == [isResponse |-> FALSE, response |-> NoResp]
NoOutput == [isResponse |-> FALSE, response |-> NoResp, bodyUsed |-> FALSE]

\* a request without Authorization and X-API-Key
NoCredentials == [authorization |-> None, apiKey |-> None]

NoApp ==
  [active |-> FALSE, method |-> "none", pathname |-> <<>>,
   acceptEncoding |-> None, client |-> NoClient,
   credentials |-> NoCredentials, limiter |-> NoRl,
   handler |-> "none", result |-> NoResult, out |-> NoOutput]

S_deflate == <<"d", "e", "f", "l", "a", "t", "e">>

\* Accept-Encoding values: none, empty, one coding, a list, upper case, a
\* coding the stage does not know, and codings refused with q=0
AcceptEncodings ==
  {None, <<>>, S_gzip, S_br, S_gzip \o S_sep \o S_deflate \o S_sep \o S_br,
   <<"G", "Z", "I", "P">>, S_deflate, S_gzip \o S_q0,
   S_br \o S_q0 \o S_sep \o S_gzip}

\* the Range values sent for the JSON file: none, slices of the threshold
\* length and one byte less, one byte, and an unsatisfiable range
MetaRanges ==
  {None,
   RangeOf(0, MIN_COMPRESS_SIZE - 1),
   RangeOf(0, MIN_COMPRESS_SIZE - 2),
   R_0_0,
   S_bytesEq \o toString(MIN_COMPRESS_SIZE + 1) \o <<"-">>}

\* the requests of the category routes: every Range and Accept-Encoding for
\* the JSON file of /models, a few for the other paths
StaticChoices(category) ==
  IF category = "models"
  THEN {[relPath |-> <<"meta.json">>, range |-> r, acceptEncoding |-> a,
         client |-> ClientA] : r \in MetaRanges, a \in AcceptEncodings}
       \cup {[relPath |-> p, range |-> None, acceptEncoding |-> S_gzip,
              client |-> c] :
               p \in {<<"a.glb">>, <<"b.glb">>}, c \in ClientHeaders}
  ELSE {[relPath |-> <<"..", "models", "meta.json">>, range |-> r,
         acceptEncoding |-> a, client |-> ClientA] :
          r \in {None, R_0_0}, a \in {None, S_gzip, S_br}}

\* the onBeforeHandle hooks of the profiles in the order of their .use(): the
\* first one that answers ends the request; the result is that of the hook
\* that answered, or of the last one
RECURSIVE RunHooks(_, _, _, _, _)
RunHooks(configs, map, t, h, pathname) ==
  LET out == onBeforeHandle(Head(configs), map, t, h, pathname)
  IN  IF out.rl.status = 429 \/ Tail(configs) = <<>> THEN out
      ELSE RunHooks(Tail(configs), out.map, t, h, pathname)

\* GET or HEAD /<category>/*
AppStatic(category, method) ==
  /\ ~app.active
  /\ \E c \in StaticChoices(category) :
       LET pathname == <<category>> \o c.relPath
           request == [method |-> method, category |-> category,
                       relPath |-> c.relPath, range |-> c.range, inm |-> None,
                       client |-> c.client]
           filePath == join(DATA_DIR, category, c.relPath)
           hooks == RunHooks(<<apiRateLimit, staticFileRateLimit>>, store, now,
                             c.client, pathname)
           limited == hooks.rl.status = 429
           response ==
             IF limited THEN TooManyRequests
             ELSE IF method = "GET"
                  THEN serveFile(fs, filePath, request, RouteOptions(category))
                  ELSE serveFileHead(fs, filePath, request,
                                     RouteOptions(category))
           result == [isResponse |-> TRUE, response |-> response]
       IN  /\ BelowCap(store, now, c.client)
           /\ store' = hooks.map
           /\ app' = [active |-> TRUE, method |-> method, pathname |-> pathname,
                      acceptEncoding |-> c.acceptEncoding, client |-> c.client,
                      credentials |-> NoCredentials, limiter |-> hooks.rl,
                      handler |-> IF limited THEN "none"
                                  ELSE IF method = "GET" THEN "serveFile"
                                  ELSE "serveFileHead",
                      result |-> result,
                      out |-> compression(result, c.acceptEncoding)]
  /\ UNCHANGED <<fs, cache, req, resp, call, now, rl, rin, rout, env, sessions, dash, gone, hist, shadow, up, wh>>

\* content types a handler of the API sets
ApiContentTypes ==
  {None, <<"application/json">>,
   <<"Application/JSON", ";", " ", "charset=utf-8">>,
   <<" ", "text/html", " ", ";", "charset=utf-8">>, <<"image/png">>,
   <<"application/json-seq">>}

\* what a handler of the API returns: a plain value, or a Response with a
\* content type, perhaps a Content-Encoding, and a body around the threshold
ApiResults ==
  {[isResponse |-> FALSE,
    response |-> [status |-> 200, headers |-> NoHeaders,
                  body |-> BytesBody(Blank(MIN_COMPRESS_SIZE))]]}
  \cup
  {[isResponse |-> TRUE,
    response |->
      [status |-> 200,
       headers |-> [NoHeaders EXCEPT !["Content-Type"] = t,
                                     !["Content-Encoding"] = e,
                                     !["Content-Length"] = toString(n)],
       body |-> BytesBody(Blank(n))]] :
     t \in ApiContentTypes, e \in {None, <<"gzip">>},
     n \in {0, MIN_COMPRESS_SIZE - 1, MIN_COMPRESS_SIZE, MIN_COMPRESS_SIZE + 1}}

\* a route of the API (GET /api/files)
AppApi ==
  /\ ~app.active
  /\ \E result \in ApiResults, a \in AcceptEncodings :
       LET pathname == <<"api", "files">>
           hooks == RunHooks(<<apiRateLimit>>, store, now, ClientA, pathname)
           limited == hooks.rl.status = 429
           returned == IF limited
                       THEN [isResponse |-> TRUE, response |-> TooManyRequests]
                       ELSE result
       IN  /\ BelowCap(store, now, ClientA)
           /\ store' = hooks.map
           /\ app' = [active |-> TRUE, method |-> "GET", pathname |-> pathname,
                      acceptEncoding |-> a, client |-> ClientA,
                      credentials |-> NoCredentials, limiter |-> hooks.rl,
                      handler |-> IF limited THEN "none" ELSE "api",
                      result |-> returned,
                      out |-> compression(returned, a)]
  /\ UNCHANGED <<fs, cache, req, resp, call, now, rl, rin, rout, env, sessions, dash, gone, hist, shadow, up, wh>>

\* the response leaves the server
AppDeliver ==
  /\ app.active
  /\ app' = NoApp
  /\ UNCHANGED <<fs, cache, req, resp, call, store, now, rl, rin, rout, env, sessions, dash, gone, hist, shadow,
                 up, wh>>

NextApp ==
  \/ \E category \in ASSET_DIRS, method \in {"GET", "HEAD"} :
       AppStatic(category, method)
  \/ AppApi
  \/ AppDeliver

(***************************************************************************)
(* utils/webhook.ts: sendWebhookWithRetry, one step per awaited promise.   *)
(***************************************************************************)
\* the status codes the receiver of the notification answers with
Statuses == {200, 299, 300, 400, 499, 500}

\* no call of sendWebhookWithRetry has been made.  timers[i] is the timer of
\* the timeout of attempt i: armed by setTimeout, then cleared by
\* clearTimeout or fired (controller.abort() of that attempt)
NoWebhook ==
  [pc |-> "idle", attempt |-> 0, retryAttempts |-> 0, retryDelay |-> 0,
   status |-> 0, log |-> <<>>, delays |-> <<>>, result |-> "none",
   resultStatus |-> 0, timers |-> <<>>]

\* response.ok
Ok(status) == status >= 200 /\ status <= 299

\* response.status >= 400 && response.status < 500
ClientError(status) == status >= 400 /\ status < 500

\* a plausible slip: the same delay before every attempt
Backoff_Constant(retryDelay, attempt) == retryDelay

\* retryDelay * Math.pow(2, attempt)
Backoff(retryDelay, attempt) == retryDelay * 2^attempt

\* a plausible slip: the loop runs while attempt <= retryAttempts
LoopCondition_Inclusive(w) == w.attempt <= w.retryAttempts

\* attempt < retryAttempts
LoopCondition(w) == w.attempt < w.retryAttempts

\* the head of the for loop: the timer of the timeout is set and the next
\* fetch is started, or the loop is left and null is returned
LoopHead(w) ==
  IF LoopCondition(w)
  THEN [w EXCEPT !.pc = "fetching", !.status = 0,
                 !.timers = Append(@, "armed")]
  ELSE [w EXCEPT !.pc = "done", !.status = 0, !.result = "null"]

\* lines 131-135 and 143-147: the delay before the next attempt if there is
\* one, then attempt++ and the head of the loop
AfterFailure(w) ==
  IF w.attempt < w.retryAttempts - 1
  THEN [w EXCEPT !.pc = "sleeping", !.status = 0,
                 !.delays = Append(@, Backoff(w.retryDelay, w.attempt))]
  ELSE LoopHead([w EXCEPT !.attempt = @ + 1])

\* the call: the options, attempt = 0 and the head of the loop
StartWebhook(retryAttempts, retryDelay) ==
  LoopHead([NoWebhook EXCEPT !.retryAttempts = retryAttempts,
                             !.retryDelay = retryDelay])

\* await fetch(...) settles: with a response of some status, and
\* clearTimeout runs; with a network error, and the catch block runs with the
\* timer still set; or the timer fires, controller.abort() rejects the fetch
\* and the catch block runs
FetchSettles ==
  /\ wh.pc = "fetching"
  /\ \/ \E status \in Statuses :
          LET w == [wh EXCEPT !.log = Append(@, [kind |-> "response",
                                                 status |-> status]),
                             !.timers[Len(wh.timers)] = "cleared"]
          IN  wh' = IF Ok(status)
                    THEN [w EXCEPT !.pc = "done", !.result = "response",
                                   !.resultStatus = status]
                    ELSE [w EXCEPT !.pc = "reading", !.status = status]
     \/ wh' = AfterFailure([wh EXCEPT !.log = Append(@, [kind |-> "network",
                                                         status |-> 0])])
     \/ wh' = AfterFailure([wh EXCEPT !.log = Append(@, [kind |-> "timeout",
                                                         status |-> 0]),
                                      !.timers[Len(wh.timers)] = "fired"])
  /\ UNCHANGED <<fs, cache, req, resp, call, store, now, rl, rin, rout, app,
                 env, sessions, dash, gone, hist, shadow, up>>

\* await response.text() settles: the body of the non-OK response was read, or
\* reading it failed and the catch block runs
ReadSettles ==
  /\ wh.pc = "reading"
  /\ \/ wh' = IF ClientError(wh.status)
              THEN [wh EXCEPT !.pc = "done", !.result = "response",
                              !.resultStatus = wh.status, !.status = 0]
              ELSE AfterFailure(wh)
     \/ wh' = AfterFailure([wh EXCEPT !.log[Len(wh.log)].kind = "body"])
  /\ UNCHANGED <<fs, cache, req, resp, call, store, now, rl, rin, rout, app,
                 env, sessions, dash, gone, hist, shadow, up>>

\* the timer of an attempt whose fetch has failed with a network error fires:
\* controller.abort() on the controller of that attempt
StaleTimerFires ==
  /\ \E i \in 1..Len(wh.timers) :
       /\ wh.timers[i] = "armed"
       /\ ~(i = Len(wh.timers) /\ wh.pc = "fetching")
       /\ wh' = [wh EXCEPT !.timers[i] = "fired"]
  /\ UNCHANGED <<fs, cache, req, resp, call, store, now, rl, rin, rout, app,
                 env, sessions, dash, gone, hist, shadow, up>>

\* the timer of the delay fires: attempt++ and the head of the loop
SleepDone ==
  /\ wh.pc = "sleeping"
  /\ wh' = LoopHead([wh EXCEPT !.attempt = @ + 1])
  /\ UNCHANGED <<fs, cache, req, resp, call, store, now, rl, rin, rout, app,
                 env, sessions, dash, gone, hist, shadow, up>>

(***************************************************************************)
(* middleware/auth.ts (requireApiKey) and routes/upload.ts with the        *)
(* notification: POST /api/upload (specification SpecNotify).              *)
(***************************************************************************)
\* the environment of a process without notification
NoEnv ==
  [CDN_API_KEY |-> None, ENABLE_WEBHOOK |-> FALSE,
   ASSET_FORGE_API_URL |-> FALSE, CDN_URL |-> FALSE, production |-> FALSE,
   retryAttempts |-> 0, retryDelay |-> 0,
   PRIVY_APP_ID |-> FALSE, PRIVY_APP_SECRET |-> FALSE]

S_key == <<"k">>
S_wrong == <<"w">>

\* the environments of the model: notification off, no receiver URL, no
\* CDN_URL in production and elsewhere, and notification on with every number
\* of attempts and every base delay, with and without an API key
Envs ==
  {[NoEnv EXCEPT !.CDN_API_KEY = S_key],
   [NoEnv EXCEPT !.ENABLE_WEBHOOK = TRUE],
   [NoEnv EXCEPT !.ENABLE_WEBHOOK = TRUE, !.ASSET_FORGE_API_URL = TRUE,
                 !.production = TRUE, !.retryAttempts = 1, !.retryDelay = 1],
   [NoEnv EXCEPT !.ENABLE_WEBHOOK = TRUE, !.ASSET_FORGE_API_URL = TRUE,
                 !.retryAttempts = 1, !.retryDelay = 1]}
  \cup
  {[NoEnv EXCEPT !.CDN_API_KEY = k, !.ENABLE_WEBHOOK = TRUE,
                 !.ASSET_FORGE_API_URL = TRUE, !.CDN_URL = TRUE,
                 !.production = TRUE, !.retryAttempts = n, !.retryDelay = d] :
     k \in {None, S_key}, n \in 0..MaxAttempts, d \in 1..MaxRetryDelay}

\* the credentials of a request: Authorization (scheme and token) and X-API-Key
Credentials ==
  {[authorization |-> None, apiKey |-> None],
   [authorization |-> <<"Bearer ", "k">>, apiKey |-> None],
   [authorization |-> <<"Bearer ", "w">>, apiKey |-> S_key],
   [authorization |-> <<"Basic ", "k">>, apiKey |-> S_key],
   [authorization |-> None, apiKey |-> S_wrong]}

\* the onBeforeHandle hook of requireApiKey: TRUE if it answers 401
requireApiKey(validApiKey, c) ==
  LET providedKey ==
        IF c.authorization # None /\ c.authorization[1] = "Bearer "
        THEN Tail(c.authorization)
        ELSE IF c.apiKey # None /\ c.apiKey # <<>> THEN c.apiKey
        ELSE None
  IN  IF validApiKey = None \/ validApiKey = <<>> THEN FALSE
      ELSE providedKey = None \/ providedKey = <<>> \/ providedKey # validApiKey

\* no upload is in progress
NoUpload ==
  [pc |-> "idle", answeredBy |-> "none", status |-> 0, success |-> FALSE,
   delivered |-> [status |-> 0, success |-> FALSE], hook |-> "none"]

\* a plausible slip: the hook is registered as onAfterHandle and runs before
\* the response is sent
AfterResponsePoint_BeforeSend == "responding"

\* the point of the request at which onAfterResponse runs: the response has
\* been sent
AfterResponsePoint == "sent"

\* POST /api/upload: the hooks of the route (requireApiKey, uploadRateLimit),
\* then the handler, which writes the file and answers 200, or answers 500 if
\* writing throws
UploadRoute ==
  /\ up.pc = "idle"
  /\ wh.pc = "idle"
  /\ \E c \in Credentials, n \in {0, MaxSize}, written \in BOOLEAN :
       LET unauthorized == requireApiKey(env.CDN_API_KEY, c)
           hook == onBeforeHandle(uploadRateLimit, store, now, ClientA,
                                  <<"api", "upload">>)
           limited == ~unauthorized /\ hook.rl.status = 429
           handled == ~unauthorized /\ ~limited
       IN  /\ unauthorized \/ BelowCap(store, now, ClientA)
           /\ store' = IF unauthorized THEN store ELSE hook.map
           /\ fs' = IF handled /\ written
                    THEN [fs EXCEPT ![AssetPath] =
                            [exists |-> TRUE, data |-> Bytes(n, 10),
                             lastModified |-> MaxMtime]]
                    ELSE fs
           /\ up' = [NoUpload EXCEPT
                       !.pc = "responding",
                       !.answeredBy = IF unauthorized THEN "auth"
                                      ELSE IF limited THEN "limiter"
                                      ELSE "handler",
                       !.status = IF unauthorized THEN 401
                                  ELSE IF limited THEN 429
                                  ELSE IF written THEN 200 ELSE 500,
                       !.success = handled /\ written]
  /\ UNCHANGED <<cache, req, resp, call, now, rl, rin, rout, app, env, sessions, dash, gone, hist, shadow, wh>>

\* the response is sent to the uploader
UploadRespond ==
  /\ up.pc = "responding"
  /\ up' = [up EXCEPT !.pc = "sent",
                      !.delivered = [status |-> up.status,
                                     success |-> up.success]]
  /\ UNCHANGED <<fs, cache, req, resp, call, store, now, rl, rin, rout, app,
                 env, sessions, dash, gone, hist, shadow, wh>>

\* the onAfterResponse hook: it returns early unless the upload succeeded and
\* the notification is configured; a missing CDN_URL in production throws
\* inside the try block; otherwise sendWebhookWithRetry is called and not
\* awaited
onAfterResponse ==
  /\ up.pc = AfterResponsePoint
  /\ LET skipped == \/ up.status # 200
                    \/ ~env.ENABLE_WEBHOOK
                    \/ ~env.ASSET_FORGE_API_URL
         thrown == ~env.CDN_URL /\ env.production
     IN  /\ up' = [up EXCEPT !.pc = "done",
                             !.hook = IF skipped THEN "skipped"
                                      ELSE IF thrown THEN "caught"
                                      ELSE "fired"]
         /\ wh' = IF skipped \/ thrown THEN wh
                  ELSE StartWebhook(env.retryAttempts, env.retryDelay)
  /\ UNCHANGED <<fs, cache, req, resp, call, store, now, rl, rin, rout, app,
                 env, sessions, dash, gone, hist, shadow>>

\* the request is over and the call of sendWebhookWithRetry, if one was made,
\* has returned: the model follows one upload and its notification at a time
UploadEnd ==
  /\ up.pc = "done"
  /\ wh.pc \in {"idle", "done"}
  /\ up' = NoUpload
  /\ wh' = NoWebhook
  /\ UNCHANGED <<fs, cache, req, resp, call, store, now, rl, rin, rout, app,
                 env, sessions, dash, gone, hist, shadow>>

NextNotify ==
  \/ UploadRoute
  \/ UploadEnd
  \/ UploadRespond
  \/ onAfterResponse
  \/ FetchSettles
  \/ ReadSettles
  \/ StaleTimerFires
  \/ SleepDone

(***************************************************************************)
(* POST /api/upload in the entry file that installs the limiter            *)
(* (specification SpecAppUpload): the hook of the API profile, installed   *)
(* on the application before the routes, then the hooks of the route       *)
(* (requireApiKey, uploadRateLimit), the handler, and the compression.     *)
(***************************************************************************)
\* new Response(JSON.stringify({ error: "UNAUTHORIZED", ... }), ...)
Unauthorized ==
  [status |-> 401,
   headers |-> [NoHeaders EXCEPT
                  !["Content-Type"] = <<"application/json">>,
                  !["WWW-Authenticate"] = <<"Bearer realm=\"CDN API\"">>],
   body |-> TextBody("UNAUTHORIZED")]

\* what the handler returns: { success, files } or, with status 500,
\* { success: false, error }
UploadResult(written) ==
  [isResponse |-> FALSE,
   response |-> [status |-> IF written THEN 200 ELSE 500,
                 headers |-> NoHeaders,
                 body |-> TextBody(IF written THEN "success" ELSE "error")]]

UploadPath == <<"api", "upload">>

AppUpload ==
  /\ ~app.active
  /\ \E c \in Credentials, h \in OneHeaderEach, written \in BOOLEAN,
        a \in {None, S_gzip} :
       LET api == onBeforeHandle(apiRateLimit, store, now, h, UploadPath)
           unauthorized == requireApiKey(env.CDN_API_KEY, c)
           upload == onBeforeHandle(uploadRateLimit, api.map, now, h,
                                    UploadPath)
           answeredBy == IF api.rl.status = 429 THEN "apiRateLimit"
                         ELSE IF unauthorized THEN "requireApiKey"
                         ELSE IF upload.rl.status = 429 THEN "uploadRateLimit"
                         ELSE "upload"
           result ==
             IF answeredBy = "requireApiKey"
             THEN [isResponse |-> TRUE, response |-> Unauthorized]
             ELSE IF answeredBy = "upload" THEN UploadResult(written)
             ELSE [isResponse |-> TRUE, response |-> TooManyRequests]
       IN  /\ BelowCap(store, now, h)
           /\ store' = IF answeredBy \in {"apiRateLimit", "requireApiKey"}
                       THEN api.map ELSE upload.map
           /\ fs' = IF answeredBy = "upload" /\ written
                    THEN [fs EXCEPT ![AssetPath] =
                            [exists |-> TRUE, data |-> Bytes(MaxSize, 10),
                             lastModified |-> MaxMtime]]
                    ELSE fs
           /\ app' = [active |-> TRUE, method |-> "POST",
                      pathname |-> UploadPath, acceptEncoding |-> a,
                      client |-> h, credentials |-> c,
                      limiter |-> IF answeredBy \in {"apiRateLimit",
                                                     "requireApiKey"}
                                  THEN api.rl ELSE upload.rl,
                      handler |-> answeredBy,
                      result |-> result,
                      out |-> compression(result, a)]
  /\ UNCHANGED <<cache, req, resp, call, now, rl, rin, rout, env, sessions, dash, gone, hist, shadow,
                 up, wh>>

NextAppUpload ==
  \/ AppUpload
  \/ AppDeliver

(***************************************************************************)
(* middleware/auth.ts, dashboard sessions, and the protected dashboard     *)
(* routes of index.ts.                                                     *)
(***************************************************************************)
\* the ids crypto.randomUUID() can return
SessionIds == {"s1", "s2"}

\* SESSION_DURATION_MS of 24 h, scaled to the clock of the model
SESSION_DURATION_MS == 1000

\* no entry of dashboardSessions under an id
NoSession == [present |-> FALSE, createdAt |-> 0, expiresAt |-> 0]

\* the Cookie header: absent, or the cookies between its ";", each split at
\* its first "=" into name and value
NoCookie == [present |-> FALSE, cookies |-> <<>>]
CookieOf(cookies) == [present |-> TRUE, cookies |-> cookies]

CookieHeaders ==
  {NoCookie, CookieOf(<<[name |-> "theme", value |-> "dark"]>>)}
  \cup {CookieOf(<<[name |-> "cdn_session", value |-> v]>>) :
          v \in SessionIds \cup {"", "s9"}}
  \cup {CookieOf(<<[name |-> "theme", value |-> "dark"],
                   [name |-> "cdn_session", value |-> "s1"]>>)}

\* null and the empty string are both falsy to the callers: ""
parseSessionCookie(cookieHeader) ==
  IF ~cookieHeader.present THEN ""
  ELSE LET cookies == cookieHeader.cookies
           found == {i \in 1..Len(cookies) : cookies[i].name = "cdn_session"}
       IN IF found = {} THEN ""
          ELSE cookies[CHOOSE i \in found : \A j \in found : i <= j].value

createDashboardSession(map, sessionId, t) ==
  [map EXCEPT ![sessionId] =
     [present |-> TRUE, createdAt |-> t,
      expiresAt |-> t + SESSION_DURATION_MS]]

\* the session, or none; an expired session is deleted on the way
getDashboardSession(map, sessionId, t) ==
  IF sessionId \notin DOMAIN map \/ ~map[sessionId].present
  THEN [session |-> NoSession, map |-> map]
  ELSE IF t > map[sessionId].expiresAt
  THEN [session |-> NoSession, map |-> [map EXCEPT ![sessionId] = NoSession]]
  ELSE [session |-> map[sessionId], map |-> map]

deleteDashboardSession(map, sessionId) ==
  IF sessionId \in DOMAIN map
  THEN [map EXCEPT ![sessionId] = NoSession]
  ELSE map

createLogoutCookie == <<"cdn_session=; HttpOnly; SameSite=Lax; Max-Age=0; Path=/">>

privyConfigured(e) == e.PRIVY_APP_ID /\ e.PRIVY_APP_SECRET

\* set of a new request
NoSet == [status |-> 200, headers |-> NoHeaders]

\* the onBeforeHandle hook of requireDashboardAuth: what it leaves in set and
\* in dashboardSessions, and whether it returns a value. Every branch ends in
\* a bare "return;".
requireDashboardAuth(e, map, t, cookieHeader) ==
  LET sessionId == parseSessionCookie(cookieHeader)
      got == getDashboardSession(map, sessionId, t)
      toLogin == [NoSet EXCEPT !.status = 302,
                               !.headers["Location"] = <<"/dashboard/login">>]
  IN IF ~privyConfigured(e)
     THEN [returned |-> FALSE, set |-> NoSet, map |-> map,
           sessionId |-> "", valid |-> FALSE]
     ELSE IF sessionId = ""
     THEN [returned |-> FALSE, set |-> toLogin, map |-> map,
           sessionId |-> "", valid |-> FALSE]
     ELSE IF ~got.session.present
     THEN [returned |-> FALSE,
           set |-> [toLogin EXCEPT !.headers["Set-Cookie"] = createLogoutCookie],
           map |-> got.map, sessionId |-> sessionId, valid |-> FALSE]
     ELSE [returned |-> FALSE, set |-> NoSet, map |-> got.map,
           sessionId |-> sessionId, valid |-> TRUE]

\* the files under ROOT_DIR/dashboard and the paths asked for: "" is
\* /dashboard, the others /dashboard/<path>
DashboardFiles == {"index.html", "app.js"}
DashboardPaths == {"", "app.js", "nope.js"}

FileBody(name) == [kind |-> "file", bytes |-> <<>>, text |-> name]

\* the handlers of GET /dashboard and GET /dashboard/*: the response that
\* leaves the server, from set as the hook left it
dashboardRoute(set, relativePath) ==
  LET name == IF relativePath = "" THEN "index.html" ELSE relativePath
  IN IF name \notin DashboardFiles
     THEN [status |-> 404, headers |-> set.headers,
           body |-> TextBody("File not found")]
     ELSE [status |-> set.status,
           headers |-> [set.headers EXCEPT !["Cache-Control"] = <<"no-cache">>],
           body |-> FileBody(name)]

\* no request for a protected route in progress
NoDash ==
  [active |-> FALSE, at |-> 0, path |-> "", sessionId |-> "",
   valid |-> FALSE, handler |-> FALSE, status |-> 0, headers |-> NoHeaders,
   body |-> NullBody]

\* GET /dashboard or /dashboard/*, behind .use(requireDashboardAuth()): the
\* hook, and the route handler unless the hook returned a value
GetDashboard ==
  /\ ~dash.active
  /\ \E cookieHeader \in CookieHeaders, relativePath \in DashboardPaths :
       LET hook == requireDashboardAuth(env, sessions, now, cookieHeader)
           out == dashboardRoute(hook.set, relativePath)
       IN /\ sessions' = hook.map
          /\ gone' = gone \cup {id \in SessionIds :
                                  sessions[id].present /\ ~hook.map[id].present}
          /\ dash' = IF hook.returned
                     THEN [active |-> TRUE, at |-> now, path |-> relativePath,
                           sessionId |-> hook.sessionId, valid |-> hook.valid,
                           handler |-> FALSE, status |-> hook.set.status,
                           headers |-> hook.set.headers, body |-> NullBody]
                     ELSE [active |-> TRUE, at |-> now, path |-> relativePath,
                           sessionId |-> hook.sessionId, valid |-> hook.valid,
                           handler |-> TRUE, status |-> out.status,
                           headers |-> out.headers, body |-> out.body]
  /\ UNCHANGED <<fs, cache, req, resp, call, store, now, rl, rin, rout, app,
                 env, hist, shadow, up, wh>>

DashDeliver ==
  /\ dash.active
  /\ dash' = NoDash
  /\ UNCHANGED <<fs, cache, req, resp, call, store, now, rl, rin, rout, app,
                 env, sessions, gone, hist, shadow, up, wh>>

\* POST /auth/verify with a token that Privy verifies: a session under a new id
AuthVerify ==
  /\ ~dash.active
  /\ privyConfigured(env)
  /\ \E sessionId \in SessionIds :
       /\ ~sessions[sessionId].present
       /\ sessionId \notin gone
       /\ sessions' = createDashboardSession(sessions, sessionId, now)
  /\ UNCHANGED <<fs, cache, req, resp, call, store, now, rl, rin, rout, app,
                 env, dash, gone, hist, shadow, up, wh>>

\* POST /auth/logout
AuthLogout ==
  /\ ~dash.active
  /\ \E cookieHeader \in CookieHeaders :
       LET sessionId == parseSessionCookie(cookieHeader)
       IN /\ sessionId # ""
          /\ sessionId \in SessionIds
          /\ sessions[sessionId].present
          /\ sessions' = deleteDashboardSession(sessions, sessionId)
          /\ gone' = gone \cup {sessionId}
  /\ UNCHANGED <<fs, cache, req, resp, call, store, now, rl, rin, rout, app,
                 env, dash, hist, shadow, up, wh>>

\* the hourly sweep of expired sessions
CleanSessions ==
  /\ ~dash.active
  /\ \E id \in SessionIds : sessions[id].present /\ now > sessions[id].expiresAt
  /\ sessions' = [id \in SessionIds |->
                    IF sessions[id].present /\ now > sessions[id].expiresAt
                    THEN NoSession ELSE sessions[id]]
  /\ gone' = gone \cup {id \in SessionIds :
                          sessions[id].present /\ now > sessions[id].expiresAt}
  /\ UNCHANGED <<fs, cache, req, resp, call, store, now, rl, rin, rout, app,
                 env, dash, hist, shadow, up, wh>>

NextDash ==
  \/ GetDashboard
  \/ DashDeliver
  \/ AuthVerify
  \/ AuthLogout
  \/ CleanSessions
  \/ Tick

\* no call of parseRangeHeader on its own is in progress
NoRangeInput == [header |-> None, total |-> 0]
NoRangeOutput == [computed |-> FALSE, result |-> NullRange]

\* the state of a process that has served nothing yet
InitState ==
  /\ cache = NoCache
  /\ req = NoReq
  /\ resp = NoResp
  /\ call = NoCall
  /\ store = [k \in ClientIds |-> NoEntry]
  /\ now = 0
  /\ rl = NoRl
  /\ hist = NoHist
  /\ shadow = store
  /\ app = NoApp
  /\ up = NoUpload
  /\ wh = NoWebhook
  /\ sessions = [id \in SessionIds |-> NoSession]
  /\ dash = NoDash
  /\ gone = {}

InitServer ==
  /\ fs = [p \in FilePaths |-> IF p = OutsidePath THEN OutsideFile ELSE NoFile]
  /\ InitState

Init ==
  /\ InitServer
  /\ env = NoEnv
  /\ rin = NoRangeInput
  /\ rout = NoRangeOutput

Next ==
  \/ \E category \in ASSET_DIRS : GetRoute(category)
  \/ \E category \in ASSET_DIRS : HeadRoute(category)
  \/ Deliver
  \/ Upload
  \/ Delete

Spec == Init /\ [][Next]_vars

\* the rate limiter on its own
SpecLimit == Init /\ [][NextLimit]_vars

\* the rate limiter with the history of every window
NextLimitHist ==
  \/ rateLimitCounted(uploadRateLimit)
  \/ rateLimitCounted(apiRateLimit)
  \/ rateLimitCounted(staticFileRateLimit)
  \/ RlDeliver
  \/ Cleanup
  \/ Tick

SpecLimitHist == Init /\ [][NextLimitHist]_vars

\* the rate limiter next to one that is never swept
NextSweep ==
  \/ rateLimitBoth(uploadRateLimit)
  \/ rateLimitBoth(apiRateLimit)
  \/ rateLimitBoth(staticFileRateLimit)
  \/ RlDeliver
  \/ Cleanup
  \/ Tick

SpecSweep == Init /\ [][NextSweep]_vars

\* the entry file with the limiter and the compression installed
InitApp ==
  /\ fs = AppFiles
  /\ InitState
  /\ env = NoEnv
  /\ rin = NoRangeInput
  /\ rout = NoRangeOutput

SpecApp == InitApp /\ [][NextApp]_vars

\* the same entry file with and without CDN_API_KEY
InitAppUpload ==
  /\ fs = AppFiles
  /\ InitState
  /\ env \in {NoEnv, [NoEnv EXCEPT !.CDN_API_KEY = S_key]}
  /\ rin = NoRangeInput
  /\ rout = NoRangeOutput

SpecAppUpload == InitAppUpload /\ [][NextAppUpload]_vars

\* the dashboard with and without Privy configured
InitDash ==
  /\ InitServer
  /\ env \in {NoEnv, [NoEnv EXCEPT !.PRIVY_APP_ID = TRUE],
              [NoEnv EXCEPT !.PRIVY_APP_ID = TRUE, !.PRIVY_APP_SECRET = TRUE]}
  /\ rin = NoRangeInput
  /\ rout = NoRangeOutput

SpecDash == InitDash /\ [][NextDash]_vars

\* the upload route with the notification, in every environment
InitNotify ==
  /\ InitServer
  /\ env \in Envs
  /\ rin = NoRangeInput
  /\ rout = NoRangeOutput

SpecNotify == InitNotify /\ [][NextNotify]_vars

\* every awaited promise of the notification settles
SpecNotifyFair ==
  SpecNotify /\ WF_vars(FetchSettles) /\ WF_vars(ReadSettles)
    /\ WF_vars(SleepDone)

(***************************************************************************)
(* parseRangeHeader on its own: every input of a bounded set, then the     *)
(* call (specification SpecRange).                                         *)
(***************************************************************************)
NumberStrings ==
  {<<>>, <<"0", "0">>, <<"0", "1">>} \cup {toString(n) : n \in 0..(MaxTotal + 1)}

\* [text before] unit first-last [text after]
RangeHeaderInputs ==
  {None, <<>>} \cup
  {pre \o unit \o a \o <<"-">> \o b \o post :
     pre \in {<<>>, <<"x">>},
     unit \in {S_bytesEq, S_itemsEq},
     a \in NumberStrings, b \in NumberStrings,
     post \in {<<>>, <<"x">>, <<",", "1", "-", "1">>}}

InitRange ==
  /\ InitServer
  /\ env = NoEnv
  /\ rin \in [header : RangeHeaderInputs, total : 0..MaxTotal]
  /\ rout = NoRangeOutput

ParseRange ==
  /\ ~rout.computed
  /\ rout' = [computed |-> TRUE,
              result |-> parseRangeHeader(rin.header, rin.total)]
  /\ UNCHANGED <<fs, cache, req, resp, call, store, now, rl, rin, app, env, sessions, dash, gone, hist, shadow, up, wh>>

NextRange == ParseRange

SpecRange == InitRange /\ [][NextRange]_vars

(***************************************************************************)
(* Properties of the category routes (specification Spec).                 *)
(***************************************************************************)
\* the file the handler in progress was given, and what it read of it
CurFile == FsGet(fs, call.filePath)
CurTotal == call.stat.size
CurTag == generateETag(call.stat.size, call.stat.lastModified)

\* If-None-Match values that contain tag t or the wildcard, written out
InmContaining(t) ==
  {t, S_star, S_other \o S_sep \o t, t \o <<",">> \o S_other,
   S_other \o S_sep \o S_star}

\* C1: the file handed to serveFile / serveFileHead lies under the asset root;
\* a requested path that resolves outside the root is answered 404 and no
\* content of a file outside the root is sent.
C1_PathStaysUnderRoot ==
  ~Idle =>
    \/ UnderRoot(call.filePath)
    \/ resp.status = 404 /\ resp.body.kind # "bytes"

\* C2: a GET of an existing file with Range bytes=start-end, 0 <= start <= end
\* < total, and no matching If-None-Match returns 206, Content-Range
\* "bytes start-end/total", Content-Length end-start+1 and exactly the bytes
\* at offsets start..end.
C2_RangeGet206 ==
  \A start \in 0..MaxSize, end \in 0..MaxSize :
    ( /\ req.method = "GET"
      /\ call.stat.exists
      /\ CurTotal >= 1
      /\ start <= end /\ end < CurTotal
      /\ req.range = RangeOf(start, end)
      /\ req.inm \notin InmContaining(CurTag) )
    => /\ resp.status = 206
       /\ resp.headers["Content-Range"] =
            <<"b", "y", "t", "e", "s", " ">> \o toString(start) \o <<"-">>
              \o toString(end) \o <<"/">> \o toString(CurTotal)
       /\ resp.headers["Content-Length"] = toString(end - start + 1)
       /\ resp.body.kind = "bytes"
       /\ resp.body.bytes = [i \in 1..(end - start + 1) |-> CurFile.data[start + i]]

\* a slice from the middle of a three-byte file was served
C2_Witness ==
  /\ req.method = "GET" /\ req.range = RangeOf(1, 1) /\ CurTotal = 3
  /\ resp.status = 206 /\ Len(resp.body.bytes) = 1

\* the Range of the request in progress resolves (lines 38-45) to an
\* unsatisfiable pair
ResolvesInvalid ==
  /\ req.range # None
  /\ ~RangeMatch(req.range).isNull
  /\ LET b == RangeBounds(RangeMatch(req.range), CurTotal)
     IN  b.start >= CurTotal \/ b.end >= CurTotal \/ b.start > b.end

C6_NotModified ==
  /\ ( /\ req.method = "GET" /\ call.stat.exists
       /\ req.inm \in InmContaining(CurTag) )
     => /\ resp.status = 304
        /\ resp.headers["ETag"] = CurTag
        /\ resp.headers["Cache-Control"] =
             <<"p", "u", "b", "l", "i", "c", ",", " ",
               "m", "a", "x", "-", "a", "g", "e", "=",
               "3", "1", "5", "3", "6", "0", "0", "0", ",", " ",
               "i", "m", "m", "u", "t", "a", "b", "l", "e">>
        /\ resp.body = NullBody
        /\ resp.headers["Content-Length"] = None
        /\ resp.headers["Content-Range"] = None
  /\ ( /\ req.method = "GET" /\ call.filePath = AssetPath
       /\ cache.etag # None
       /\ call.stat = cache.stat
       /\ req.inm = cache.etag )
     => resp.status = 304

\* the second of two GETs of the unmodified asset, carrying the first one's
\* ETag, was answered 304
C6_Witness ==
  /\ req.method = "GET" /\ call.filePath = AssetPath /\ req.range = None
  /\ cache.etag # None /\ call.stat = cache.stat /\ req.inm = cache.etag
  /\ resp.status = 304

\* C7: whenever If-None-Match matches the current tag the response is 304,
\* whatever the Range header is.
C7_ConditionalBeforeRange ==
  ( /\ ~Idle /\ call.stat.exists
    /\ req.inm \in InmContaining(CurTag) )
  => resp.status = 304

\* a matching conditional GET with an unsatisfiable Range was answered 304
C7_Witness ==
  /\ req.method = "GET" /\ call.stat.exists
  /\ req.inm = CurTag
  /\ req.range = S_bytesEq \o <<"9", "-">>
  /\ resp.status = 304

\* C8: the HEAD handler returns the status and the header values the GET
\* handler returns for the same request on the same files.
C8_HeadEqualsGet ==
  (req.method = "HEAD" /\ UnderRoot(call.filePath)) =>
    LET get == serveFile(fs, call.filePath, req, RouteOptions(req.category))
    IN  /\ resp.status = get.status
        /\ resp.headers = get.headers

\* generateETag is injective on the pairs (size, mtime) up to MaxMeta
ETagInjective ==
  \A s1 \in 0..MaxMeta, m1 \in 0..MaxMeta, s2 \in 0..MaxMeta, m2 \in 0..MaxMeta :
    (generateETag(s1, m1) = generateETag(s2, m2)) <=> (s1 = s2 /\ m1 = m2)

\* C9: equal (size, mtime) give the same tag and different pairs different
\* tags; a request for the unchanged asset carries the tag the client holds, a
\* request after a change of size or mtime a different one, and an
\* If-None-Match with the old tag is then not answered 304 (200 for a plain
\* GET).
C9_ETagOfSizeAndMtime ==
  /\ ETagInjective
  /\ ( /\ ~Idle /\ call.filePath = AssetPath /\ call.stat.exists
       /\ cache.etag # None
       /\ resp.status \in {200, 206, 304} )
     => /\ call.stat = cache.stat => resp.headers["ETag"] = cache.etag
        /\ call.stat # cache.stat => resp.headers["ETag"] # cache.etag
  /\ ( /\ ~Idle /\ call.filePath = AssetPath /\ call.stat.exists
       /\ cache.etag # None /\ call.stat # cache.stat
       /\ req.inm = cache.etag )
     => /\ resp.status # 304
        /\ req.range = None => resp.status = 200

\* after the asset was changed, a GET with the old tag was answered 200 with a
\* new tag
C9_Witness ==
  /\ req.method = "GET" /\ call.filePath = AssetPath
  /\ cache.etag # None /\ call.stat # cache.stat
  /\ req.inm = cache.etag /\ req.range = None
  /\ resp.status = 200 /\ resp.headers["ETag"] # cache.etag

(***************************************************************************)
(* Properties of parseRangeHeader (specification SpecRange).               *)
(***************************************************************************)
\* bytes=-N
SuffixOf(n) == S_bytesEq \o <<"-">> \o toString(n)

\* C3 as stated: bytes=-N with N <= total resolves to start = total-N and
\* end = total-1, and for every N the start is max(0, total - N).
C3_SuffixEveryN ==
  \A n \in 0..(MaxTotal + 1) :
    (rout.computed /\ rin.header = SuffixOf(n))
    => /\ ~rout.result.isNull
       /\ rout.result.start = Max(0, rin.total - n)
       /\ rout.result.end = rin.total - 1
       /\ n <= rin.total => rout.result.start = rin.total - n

\* C3 amended: for N >= 1 and total >= 1, bytes=-N resolves to start =
\* max(0, total - N) and end = total-1 (start = total-N when N <= total, the
\* whole file from offset 0 when N > total); bytes=-0, and any suffix range of
\* an empty file, is an invalid range (null).
C3_SuffixRange ==
  \A n \in 0..(MaxTotal + 1) :
    (rout.computed /\ rin.header = SuffixOf(n))
    => IF n >= 1 /\ rin.total >= 1
       THEN /\ ~rout.result.isNull
            /\ rout.result.isPartial
            /\ rout.result.start = (IF n <= rin.total THEN rin.total - n ELSE 0)
            /\ rout.result.end = rin.total - 1
            /\ rout.result.total = rin.total
            /\ rout.result.contentLength = (IF n <= rin.total THEN n ELSE rin.total)
       ELSE rout.result.isNull

\* a suffix longer than the file gave the whole file
C3_Witness ==
  /\ rout.computed /\ rin.header = SuffixOf(MaxTotal + 1) /\ rin.total = MaxTotal
  /\ ~rout.result.isNull /\ rout.result.start = 0

\* the three accepted forms: bytes=a-b, bytes=a-, bytes=-b
SingleRangeForms ==
  {S_bytesEq \o a \o <<"-">> \o b :
     a \in NumberStrings, b \in NumberStrings} \ {S_bytesEq \o <<"-">>}

\* C5: every Range value that is not a single range in one of the three forms
\* is an invalid range (null).
C5_OnlySingleRanges ==
  ( /\ rout.computed
    /\ rin.header # None /\ rin.header # <<>>
    /\ rin.header \notin SingleRangeForms )
  => rout.result.isNull

(***************************************************************************)
(* Properties of the rate limiter (specification SpecLimit).               *)
(***************************************************************************)
\* the request in the limiter was counted (not skipped)
Counted == rl.active /\ ~rl.skipped

\* C10 as stated: in a running window the request is rejected exactly when it
\* is beyond the first maxRequests of the window; once windowMs has elapsed
\* since the window was created (now >= resetTime), the request opens a fresh
\* window with count = 1 and is admitted.
C10_FreshOnceElapsed ==
  Counted =>
    IF rl.before.present /\ rl.at < rl.before.resetTime
    THEN /\ store[rl.clientId].count = rl.before.count + 1
         /\ (rl.status = 429) <=> (rl.before.count + 1 > rl.maxRequests)
    ELSE /\ store[rl.clientId] =
              [present |-> TRUE, count |-> 1, resetTime |-> rl.at + rl.windowMs]
         /\ rl.status # 429

\* C10 amended: in a running window (now <= resetTime) the request is counted
\* and is rejected with 429 exactly when it is beyond the first maxRequests of
\* the window; once more than windowMs has elapsed since the window was
\* created (now > resetTime), or the client has no window, the request opens a
\* fresh window with count = 1 and resetTime = now + windowMs and is admitted.
C10_WindowLimit ==
  Counted =>
    IF rl.before.present /\ rl.at <= rl.before.resetTime
    THEN /\ store[rl.clientId].count = rl.before.count + 1
         /\ store[rl.clientId].resetTime = rl.before.resetTime
         /\ (rl.status = 429) <=> (rl.before.count + 1 > rl.maxRequests)
    ELSE /\ store[rl.clientId] =
              [present |-> TRUE, count |-> 1, resetTime |-> rl.at + rl.windowMs]
         /\ rl.status # 429

\* a client that was over the ceiling of its window opened a fresh window
\* after the window had run out
C10_Witness ==
  /\ Counted
  /\ rl.before.present /\ rl.before.count > rl.maxRequests
  /\ rl.before.resetTime < rl.at
  /\ store[rl.clientId].count = 1 /\ rl.status = 200

\* the number stored for the client after the request
CountAfter == store[rl.clientId].count

\* C11: every counted request, admitted or rejected, the first of a window
\* included, carries X-RateLimit-Limit, X-RateLimit-Remaining and
\* X-RateLimit-Reset; Remaining is maxRequests - count >= 0 when admitted and
\* 0 when rejected.
C11_HeadersOnEveryCounted ==
  Counted =>
    /\ rl.headers["X-RateLimit-Limit"] = toString(rl.maxRequests)
    /\ rl.headers["X-RateLimit-Reset"] =
         toISOString(store[rl.clientId].resetTime)
    /\ IF rl.status = 429
       THEN rl.headers["X-RateLimit-Remaining"] = <<"0">>
       ELSE /\ rl.maxRequests - CountAfter >= 0
            /\ rl.headers["X-RateLimit-Remaining"] =
                 toString(rl.maxRequests - CountAfter)

\* C12: a rejection carries Retry-After = ceil((resetTime - now) / 1000), a
\* value that is not negative and not above ceil(windowMs / 1000) of the
\* profile that rejected the request.
C12_RetryAfterWithinWindow ==
  (Counted /\ rl.status = 429) =>
    LET retryAfter == Ceil(rl.before.resetTime - rl.at, 1000)
    IN  /\ rl.headers["Retry-After"] = toString(retryAfter)
        /\ retryAfter >= 0
        /\ retryAfter <= Ceil(rl.windowMs, 1000)

(***************************************************************************)
(* Properties of the request pipeline of the category routes               *)
(* (specification Spec).                                                   *)
(***************************************************************************)
\* serveFile or serveFileHead has been called for the request in progress
ResponderCalled == call.fn \in {"serveFile", "serveFileHead"}

\* C13: every GET/HEAD of a category route passes the limiter before
\* serveFile / serveFileHead is called: when the responder has been called,
\* the limiter has counted the request in a window of the client, and that
\* window is not over the static-file ceiling.
C13_AdmissionBeforeResponder ==
  ResponderCalled =>
    LET entry == store[getClientId(req.client)]
    IN  /\ entry.present
        /\ entry.count >= 1
        /\ entry.count <= StaticMaxRequests

(***************************************************************************)
(* Properties of the compression stage and of the pipeline with the        *)
(* limiter and the compression installed (specification SpecApp).          *)
(***************************************************************************)
\* the Accept-Encoding value accepts the coding: some element of the list
\* names it (in any case) and does not refuse it with q=0
Accepts(acceptEncoding, coding) ==
  /\ acceptEncoding # None
  /\ LET elements == Split(acceptEncoding, ",", <<>>)
     IN  \E i \in 1..Len(elements) :
           LET parts == Split(elements[i], ";", <<>>)
           IN  /\ toLowerCase(Trim(parts[1])) = coding
               /\ \A j \in 2..Len(parts) : Trim(parts[j]) # <<"q", "=", "0">>

\* what the handler (or the hook that answered) returned, and what left the
\* compression stage
Returned == app.result.response
Sent == app.out.response

\* the four conditions of C14 hold for the request in progress
Eligible ==
  /\ app.result.isResponse
  /\ Returned.headers["Content-Encoding"] = None
  /\ isCompressible(ContentTypeHeader(Returned))
  /\ Accepts(app.acceptEncoding, S_br) \/ Accepts(app.acceptEncoding, S_gzip)
  /\ Len(arrayBuffer(Returned)) >= 1024

\* C14: the compression stage changes a response exactly when it has no
\* Content-Encoding, its media type is in the allow-list, the request accepts
\* br or gzip and the body has at least 1024 bytes; it then uses br if br is
\* accepted and gzip otherwise and sets Content-Encoding, Content-Length (the
\* compressed length) and Vary: Accept-Encoding; otherwise the response is
\* left as it was, without Content-Encoding added.
C14_CompressOnlyEligible ==
  app.active =>
    IF Eligible
    THEN LET encoding == IF Accepts(app.acceptEncoding, S_br) THEN "br"
                         ELSE "gzip"
         IN  /\ Sent.headers["Content-Encoding"] = <<encoding>>
             /\ Sent.body = BytesBody(compress(arrayBuffer(Returned), encoding))
             /\ Sent.headers["Content-Length"] = toString(Len(Sent.body.bytes))
             /\ Sent.headers["Vary"] = <<"Accept-Encoding">>
    ELSE Sent = Returned

\* C15: a 206 response and every response of a category route leaves the
\* pipeline as the handler made it: no Content-Encoding, and Content-Length
\* and body those of the requested slice.
C15_NoCompressionOfAssets ==
  (app.active /\ (app.pathname[1] \in ASSET_DIRS \/ Returned.status = 206)) =>
    /\ Sent.headers["Content-Encoding"] = None
    /\ Sent.headers["Content-Length"] = Returned.headers["Content-Length"]
    /\ Sent.body = Returned.body

(***************************************************************************)
(* Properties of the notification (specifications SpecNotify and           *)
(* SpecNotifyFair).                                                        *)
(***************************************************************************)
\* the attempt got a 5xx response, or failed with a network error or the
\* timeout
ServerErrorOrFailure(entry) ==
  entry.kind \in {"network", "timeout"} \/ entry.status >= 500

\* the attempt got a 2xx response
Delivered(entry) == entry.kind = "response" /\ Ok(entry.status)

\* the delays before attempts 2..n+1: retryDelay, doubled every time
ExpectedDelays(n) == [i \in 1..n |-> wh.retryDelay * 2^(i - 1)]

\* C16: when attempt k is the first with a 2xx response and all attempts
\* before it got a 5xx response or failed, exactly k <= retryAttempts attempts
\* were made, the call returns that response, and the delay before attempt
\* i+1 was retryDelay * 2^(i-1).
C16_DeliveredAtAttemptK ==
  (/\ wh.pc = "done"
   /\ wh.log # <<>>
   /\ Delivered(wh.log[Len(wh.log)])
   /\ \A i \in 1..(Len(wh.log) - 1) : ServerErrorOrFailure(wh.log[i]))
  => /\ Len(wh.log) <= wh.retryAttempts
     /\ wh.attempt = Len(wh.log) - 1
     /\ wh.result = "response"
     /\ wh.resultStatus = wh.log[Len(wh.log)].status
     /\ wh.delays = ExpectedDelays(Len(wh.log) - 1)

\* two server errors, then success at the third attempt, with a base delay
\* above 1
C16_Witness ==
  /\ wh.pc = "done" /\ wh.result = "response" /\ Ok(wh.resultStatus)
  /\ wh.retryDelay = 2
  /\ Len(wh.log) = 3
  /\ wh.log[1] = [kind |-> "response", status |-> 500]
  /\ wh.log[2] = [kind |-> "response", status |-> 500]
  /\ wh.delays = <<2, 4>>

\* C17: an attempt that got a 4xx response is the last one: no further fetch
\* is started and no delay is scheduled after it.
C17_ClientErrorAbandons ==
  \A i \in 1..Len(wh.log) :
    ClientError(wh.log[i].status) =>
      /\ i = Len(wh.log)
      /\ wh.pc \in {"reading", "done"}
      /\ Len(wh.delays) = i - 1

\* C18 (safety part): never more than retryAttempts attempts; when every
\* attempt got a 5xx response or failed, the call ends after exactly
\* retryAttempts attempts with null, the delay after failed attempt number a
\* (from 0) having been retryDelay * 2^a, and none after the last attempt.
C18_Exhausted ==
  /\ Len(wh.log) <= wh.retryAttempts
  /\ (/\ wh.pc = "done"
      /\ \A i \in 1..Len(wh.log) : ServerErrorOrFailure(wh.log[i]))
     => /\ Len(wh.log) = wh.retryAttempts
        /\ wh.result = "null"
        /\ wh.delays = ExpectedDelays(wh.retryAttempts - 1)

C19_FireAndForget ==
  /\ (wh.pc # "idle" \/ up.hook # "none") => up.pc = "done"
  /\ up.pc \in {"sent", "done"} =>
       up.delivered = [status |-> up.status, success |-> up.success]
  /\ up.hook \in {"caught", "fired"} =>
       up.delivered = [status |-> 200, success |-> TRUE]

\* the notification of a successful upload was abandoned (a 4xx, or null after
\* the last attempt) and the uploader has its 200
C19_Witness ==
  /\ up.pc = "done" /\ up.hook = "fired"
  /\ wh.pc = "done" /\ wh.result = "null" /\ Len(wh.log) = 2
  /\ up.delivered = [status |-> 200, success |-> TRUE]

\* C20: the call returns a Response exactly when some attempt got a 2xx
\* response, and null whenever the delivery failed.
C20_ResponseIffDelivered ==
  wh.pc = "done" =>
    IF \E i \in 1..Len(wh.log) : Delivered(wh.log[i])
    THEN wh.result = "response"
    ELSE wh.result = "null"

\* C21: a GET or HEAD for a path at which no file exists is answered 404 with
\* no body and no header, whatever If-None-Match and Range it carries (never
\* 304 or 416).
C21_NotFoundNoBody ==
  (~Idle /\ ~call.stat.exists) =>
    /\ resp.status = 404
    /\ resp.headers = NoHeaders
    /\ resp.body.kind = "null"

\* what parseRangeHeader returns for an absent (or empty) header
FullRange(total) ==
  [isNull |-> FALSE, start |-> 0, end |-> total - 1, total |-> total,
   contentLength |-> total, isPartial |-> FALSE]

HeaderAbsent == rin.header = None

\* C22 as stated: every non-null result, for every header and every total >= 0,
\* has 0 <= start <= end <= total-1 and contentLength = end-start+1; an absent
\* header gives the full range, and isPartial holds exactly when a header was
\* given.
C22_RangeResultEveryTotal ==
  (rout.computed /\ ~rout.result.isNull) =>
    /\ 0 <= rout.result.start
    /\ rout.result.start <= rout.result.end
    /\ rout.result.end <= rin.total - 1
    /\ rout.result.contentLength = rout.result.end - rout.result.start + 1
    /\ HeaderAbsent => rout.result = FullRange(rin.total)
    /\ rout.result.isPartial <=> ~HeaderAbsent

\* C22 amended: every non-null result for a file of total >= 1 bytes has
\* 0 <= start <= end <= total-1, and every non-null result has total = the file
\* length and contentLength = end-start+1; an absent or empty header gives
\* {0, total-1, total, total, false} (for an empty file that is start 0, end
\* -1, contentLength 0, the one non-null result of an empty file); isPartial
\* holds exactly when a non-empty header was given.
C22_RangeResult ==
  (rout.computed /\ ~rout.result.isNull) =>
    /\ rout.result.total = rin.total
    /\ rout.result.contentLength = rout.result.end - rout.result.start + 1
    /\ rin.total >= 1 =>
         /\ 0 <= rout.result.start
         /\ rout.result.start <= rout.result.end
         /\ rout.result.end <= rin.total - 1
    /\ (HeaderAbsent \/ rin.header = <<>>) => rout.result = FullRange(rin.total)
    /\ rout.result.isPartial <=> ~(HeaderAbsent \/ rin.header = <<>>)
    /\ rin.total = 0 =>
         /\ ~rout.result.isPartial
         /\ rout.result.start = 0 /\ rout.result.end = -1
         /\ rout.result.contentLength = 0

\* a range with both bounds inside a file was resolved, and the full range of
\* an empty file was returned
C22_Witness ==
  /\ rout.computed /\ ~rout.result.isNull
  /\ rout.result.isPartial
  /\ rout.result.start = 2 /\ rout.result.end = MaxTotal - 1
  /\ rin.total = MaxTotal

(***************************************************************************)
(* Properties of the windows of the rate limiter (specifications           *)
(* SpecLimitHist and SpecSweep).                                           *)
(***************************************************************************)
\* a counted request of the observed fingerprint is in the limiter
CountedObserved == Counted /\ rl.clientId = Observed

\* the hook of a profile has just answered a request
HookStep == ~rl.active /\ rl'.active

\* C23: after n counted requests of a fingerprint inside one window, in any
\* order with each other and with the sweep, the counter is n and exactly
\* max(0, n - maxRequests) of them were rejected; and a request changes the
\* entry of no other fingerprint.
C23_NoLostIncrement ==
  /\ [](CountedObserved =>
          /\ store[Observed].present
          /\ store[Observed].count = hist.n
          /\ hist.rejected = Max(0, hist.n - rl.maxRequests))
  /\ [][HookStep =>
          \A k \in ClientIds : k # rl'.clientId => store'[k] = store[k]]_vars

\* the window of an entry is still running at time t, as RateLimitStore.get
\* sees it
Running(entry, t) == entry.present /\ ~Expired(entry, t)

\* the entry as RateLimitStore.get returns it at time t
Live(entry, t) == IF Running(entry, t) THEN entry ELSE NoEntry

\* what a client sees of the answer of a hook
Answer(out) ==
  [skipped |-> out.rl.skipped, status |-> out.rl.status,
   headers |-> out.rl.headers]

\* a step of the sweep that removed something
SweepStep == ~rl.active /\ rl' = rl /\ store' # store

\* the profile of a name
ProfileOf(name) ==
  CHOOSE config \in {uploadRateLimit, apiRateLimit, staticFileRateLimit} :
    config.name = name

\* C24: the sweep removes exactly the windows whose resetTime has passed and
\* no running one; and with the sweep run at any point between requests,
\* every request is answered (admission, status, rate-limit headers) as by the
\* limiter that was never swept, and both hold the same running windows.
C24_SweepChangesNothing ==
  /\ [](\A k \in ClientIds : Live(store[k], now) = Live(shadow[k], now))
  /\ [][HookStep =>
          LET h == CHOOSE c \in OneHeaderEach : getClientId(c) = rl'.clientId
              never == onBeforeHandle(ProfileOf(rl'.profile), shadow, now, h,
                                      rl'.pathname)
          IN  Answer([rl |-> rl']) = Answer(never)]_vars
  /\ [][SweepStep =>
          \A k \in ClientIds :
            /\ Running(store[k], now) => store'[k] = store[k]
            /\ (store[k].present /\ store[k].resetTime < now)
                 => ~store'[k].present
            /\ ~store[k].present => ~store'[k].present]_vars

\* the sweep has removed a window that the other limiter still holds, and a
\* later request of a fingerprint without a window was counted
C24_Witness ==
  /\ \E k \in ClientIds : ~store[k].present /\ shadow[k].present
  /\ Counted /\ ~rl.before.present /\ rl.at > 0

(***************************************************************************)
(* Properties of POST /api/upload in the entry file with the limiter       *)
(* (specification SpecAppUpload).                                          *)
(***************************************************************************)
\* the request in progress is an upload that carries no valid API key while
\* CDN_API_KEY is set
UploadWithoutKey ==
  /\ app.active /\ app.pathname = UploadPath
  /\ env.CDN_API_KEY # None
  /\ requireApiKey(env.CDN_API_KEY, app.credentials)

\* C25: with CDN_API_KEY set, an upload request with a missing or wrong key is
\* answered 401 by the key check before any limiter counted it: no file is
\* written and the rate-limit entry of the client is as it was.
C25_KeyCheckFirst ==
  UploadWithoutKey =>
    /\ app.result.response.status = 401
    /\ app.handler = "requireApiKey"
    /\ fs = AppFiles
    /\ app.limiter = NoRl
    /\ store[getClientId(app.client)] = app.limiter.before

\* the response in progress has an eligible content type, no Content-Encoding
\* and a body below the threshold
SmallEligible ==
  /\ app.active /\ app.result.isResponse
  /\ Returned.headers["Content-Encoding"] = None
  /\ isCompressible(ContentTypeHeader(Returned))
  /\ Len(arrayBuffer(Returned)) < MIN_COMPRESS_SIZE

\* C26: an eligible response with a body below 1024 bytes leaves the
\* compression stage as it came, also when the request accepts br or gzip:
\* same status, same headers, no Content-Encoding, and its body still there
\* to be sent in full.
C26_SmallBodyUnchanged ==
  SmallEligible =>
    /\ Sent = Returned
    /\ Sent.headers["Content-Encoding"] = None
    /\ ~app.out.bodyUsed

\* an attempt is pending: its fetch or the read of its body has not settled
AttemptPending == wh.pc \in {"fetching", "reading"}

\* C27: every pending attempt has the timer of its timeout running, so it
\* ends at the timeout at the latest; an attempt whose timer has fired is not
\* pending; and an attempt is aborted by its own timer only.
C27_AttemptBoundedByTimeout ==
  /\ AttemptPending => wh.timers[Len(wh.timers)] = "armed"
  /\ \A i \in 1..Len(wh.timers) :
       wh.timers[i] = "fired" => ~(AttemptPending /\ i = Len(wh.timers))
  /\ \A i \in 1..Len(wh.log) :
       wh.log[i].kind = "timeout" => wh.timers[i] = "fired"

\* C28: the requests of a client counted in the window of one profile are
\* requests of that profile only, and the window runs for the windowMs of that
\* profile from its first request: no request counts toward the ceiling of
\* another profile or sets the window of another profile.
C28_ProfilesIndependent ==
  CountedObserved =>
    /\ hist.profiles = {rl.profile}
    /\ store[Observed].resetTime = hist.first + rl.windowMs

\* C29: a counted request that finds a running window leaves resetTime as it
\* was and raises count by exactly 1, whether it is admitted or rejected; and
\* no request is rejected once windowMs has passed since the first request of
\* its window.
C29_WindowFixed ==
  CountedObserved =>
    /\ Running(rl.before, rl.at) =>
         /\ store[Observed].resetTime = rl.before.resetTime
         /\ store[Observed].count = rl.before.count + 1
    /\ rl.status = 429 => rl.at < hist.first + rl.windowMs

\* a request for a protected route that Privy guards and that carries no
\* valid session
Unadmitted ==
  dash.active /\ privyConfigured(env) /\ ~dash.valid

\* C30: with Privy configured, a request for /dashboard or /dashboard/* without
\* a valid session (no cookie, unknown id, expired or logged out session) is
\* answered 302 to /dashboard/login, the route handler is not run and no file
\* is in the response; and a session is accepted only between its creation
\* and its expiry, never once it has expired or been logged out.
C30_DashboardGuarded ==
  /\ Unadmitted =>
       /\ dash.status = 302
       /\ dash.headers["Location"] = <<"/dashboard/login">>
       /\ ~dash.handler
       /\ dash.body.kind # "file"
  /\ (dash.active /\ dash.valid) =>
       /\ dash.sessionId \in SessionIds
       /\ dash.sessionId \notin gone
       /\ sessions[dash.sessionId].present
       /\ sessions[dash.sessionId].createdAt <= dash.at
       /\ dash.at <= sessions[dash.sessionId].expiresAt
  /\ \A id \in gone : ~sessions[id].present

====
